---- MODULE Spec2Model ----
(***************************************************************************)
(* Cascading field-extraction pipeline (AdvancedCoFExtractor, AIExtractor)  *)
(* and the bounded recursive folder scan (FolderReader) of the DocuSign     *)
(* PDF extraction service, modelled from the JavaScript sources.            *)
(*                                                                          *)
(* JavaScript strings are sequences of one-character strings, so that       *)
(* toLowerCase, includes, trim, replace and parseInt are computed.          *)
(***************************************************************************)
EXTENDS Integers, Sequences, FiniteSets, TLC

VARIABLES
    \* ---- AdvancedCoFExtractor.extractFields (one call) ----
    text,        \* argument text
    fields,      \* argument fields: sequence of field names (FieldSpec.name)
    pdfPath,     \* argument pdfPath: TRUE when a path is given, FALSE for null
    keys,        \* which SDK clients the constructor created (google/openai/anthropic)
    pc,          \* position inside extractFields
    bestResult,  \* local bestResult (NoResult for null)
    calls,       \* provider API calls issued so far: <<[adapter, response]>>
    ocrCalls,    \* calls of ocrService.extractTextFromPDF issued by the extractor
    patternRuns, \* calls of extractFieldsFromOCRText: <<searched text>>
    outcome,     \* "running", "returned" or "thrown"
    result,      \* the returned ExtractionResult (NoResult before the return)
    \* ---- AIExtractor.batchExtract ----
    bx,          \* record: the batch call's state, or one call of extractDataFromText
    \* ---- FolderReader.scanFolderRecursively ----
    sc,          \* record: the scan's call stack and result
    \* ---- AdvancedCoFExtractor.validateCoFField ----
    va,          \* record: one validation and the validation of its normalized value
    \* ---- one provider answer: its parsing, or the validation of its candidate ----
    vc,          \* record: the answer and what is parsed from it, or the adapter's
                 \* result with bestResult before and after lines 454-481
    \* ---- OCRService.extractTextFromPDF ----
    oc,          \* record: the runs in progress and the shared temporary directory
    \* ---- AIExtractor.extractFieldWithPatterns ----
    pf           \* record: one call, its arguments and what it returned

vars == <<text, fields, pdfPath, keys, pc, bestResult, calls, ocrCalls,
          patternRuns, outcome, result, bx, sc, va, vc, oc, pf>>

extractVars == <<text, fields, pdfPath, keys, pc, bestResult, calls, ocrCalls,
                 patternRuns, outcome, result>>

\* ------------------------------------------------------------------------
\* JavaScript strings and values
\* ------------------------------------------------------------------------
LowerLetters == <<"a", "b", "c", "d", "e", "f", "g", "h", "i", "j", "k", "l", "m", "n", "o", "p", "q", "r", "s", "t", "u", "v", "w", "x", "y", "z">>

UpperLetters == <<"A", "B", "C", "D", "E", "F", "G", "H", "I", "J", "K", "L", "M", "N", "O", "P", "Q", "R", "S", "T", "U", "V", "W", "X", "Y", "Z">>

Digits == <<"0", "1", "2", "3", "4", "5", "6", "7", "8", "9">>

RangeOf(s) == {s[i] : i \in 1..Len(s)}

IndexIn(c, s) == CHOOSE i \in 1..Len(s) : s[i] = c

\* String.prototype.toLowerCase / toUpperCase, character by character
LowerChar(c) == IF c \in RangeOf(UpperLetters) THEN LowerLetters[IndexIn(c, UpperLetters)] ELSE c

UpperChar(c) == IF c \in RangeOf(LowerLetters) THEN UpperLetters[IndexIn(c, LowerLetters)] ELSE c

ToLowerCase(s) == [i \in 1..Len(s) |-> LowerChar(s[i])]

ToUpperCase(s) == [i \in 1..Len(s) |-> UpperChar(s[i])]

\* String.prototype.includes
Includes(s, sub) ==
    \E i \in 1..(Len(s) - Len(sub) + 1) : SubSeq(s, i, i + Len(sub) - 1) = sub

\* String.prototype.startsWith
StartsWith(s, pre) == Len(s) >= Len(pre) /\ SubSeq(s, 1, Len(pre)) = pre

\* s.replace(/[^0-9]/g, '')
KeepDigits(s) == SelectSeq(s, LAMBDA c : c \in RangeOf(Digits))

IsSpace(c) == c \in {" ", "\t", "\n"}

\* String.prototype.trim
RECURSIVE TrimLeft(_)
TrimLeft(s) == IF s # <<>> /\ IsSpace(Head(s)) THEN TrimLeft(Tail(s)) ELSE s

RECURSIVE TrimRight(_)
TrimRight(s) ==
    IF s # <<>> /\ IsSpace(s[Len(s)]) THEN TrimRight(SubSeq(s, 1, Len(s) - 1)) ELSE s

Trim(s) == TrimRight(TrimLeft(s))

\* parseInt of a string of digits; NaN for the empty string
NaN == -1

RECURSIVE DigitsValue(_)
DigitsValue(s) ==
    IF s = <<>> THEN 0
    ELSE 10 * DigitsValue(SubSeq(s, 1, Len(s) - 1)) + (IndexIn(s[Len(s)], Digits) - 1)

ParseInt(s) == IF s = <<>> THEN NaN ELSE DigitsValue(s)

\* Number.prototype.toString for a non-negative integer
RECURSIVE NumToString(_)
NumToString(n) ==
    IF n < 10 THEN <<Digits[n + 1]>>
    ELSE Append(NumToString(n \div 10), Digits[(n % 10) + 1])

\* JavaScript values: t is the type, s the value's toString(), n the number
\* (or the array length)
Str(s) == [t |-> "str", s |-> s, n |-> 0]

Num(n) == [t |-> "num", s |-> NumToString(n), n |-> n]

Null == [t |-> "null", s |-> <<>>, n |-> 0]

Undefined == [t |-> "undef", s |-> <<>>, n |-> 0]

\* !value
Falsy(v) ==
    \/ v.t \in {"null", "undef"}
    \/ v.t = "str" /\ v.s = <<>>
    \/ v.t = "num" /\ v.n = 0

S_NA == <<"N", "A">>

S_EMEA == <<"E", "M", "E", "A">>

S_APAC == <<"A", "P", "A", "C">>

S_LATAM == <<"L", "A", "T", "A", "M">>

S_NotAvailable == <<"N", "/", "A">>

\* ------------------------------------------------------------------------
\* Field names (FieldSpec.name)
\* ------------------------------------------------------------------------
FieldName ==
    [pod |-> <<"p", "o", "d">>,
     floor_amount_match |-> <<"f", "l", "o", "o", "r", "_", "a", "m", "o", "u", "n", "t", "_", "m", "a", "t", "c", "h">>,
     company_name |-> <<"c", "o", "m", "p", "a", "n", "y", "_", "n", "a", "m", "e">>,
     opportunity_name |-> <<"o", "p", "p", "o", "r", "t", "u", "n", "i", "t", "y", "_", "n", "a", "m", "e">>,
     period |-> <<"p", "e", "r", "i", "o", "d">>,
     currency |-> <<"c", "u", "r", "r", "e", "n", "c", "y">>,
     poc |-> <<"p", "o", "c">>,
     remarks |-> <<"r", "e", "m", "a", "r", "k", "s">>,
     \* a name in upper case: the data key keeps the caller's spelling
     POD_upper |-> <<"P", "O", "D">>,
     \* a name that is no valid regular expression source
     qty_paren |-> <<"q", "t", "y", "(">>]

\* ------------------------------------------------------------------------
\* AdvancedCoFExtractor.validateCoFField
\* ------------------------------------------------------------------------
Invalid(reason) ==
    [valid |-> FALSE, confidence |-> "none", normalizedValue |-> Undefined,
     reason |-> reason, threw |-> FALSE]

Valid(confidence, normalized) ==
    [valid |-> TRUE, confidence |-> confidence, normalizedValue |-> normalized,
     reason |-> "", threw |-> FALSE]

\* a TypeError raised while the validator evaluates (value.trim is not a function, ...)
Threw == [valid |-> FALSE, confidence |-> "none", normalizedValue |-> Undefined,
          reason |-> "TypeError", threw |-> TRUE]

\* faulty variant: a fifth region code
validRegions_WithEU == {S_NA, S_EMEA, S_APAC, S_LATAM, <<"E", "U">>}

validRegions == {S_NA, S_EMEA, S_APAC, S_LATAM}

CurrencyCodes == {<<"U", "S", "D">>, <<"E", "U", "R">>, <<"G", "B", "P">>, <<"C", "A", "D">>, <<"A", "U", "D">>, <<"J", "P", "Y">>}

\* symbolMap; the non-ASCII symbols are the one-character tokens euro, pound, yen
symbolMap == [c \in {<<"$">>, <<"euro">>, <<"pound">>, <<"yen">>} |->
                 CASE c = <<"$">> -> <<"U", "S", "D">>
                   [] c = <<"euro">> -> <<"E", "U", "R">>
                   [] c = <<"pound">> -> <<"G", "B", "P">>
                   [] c = <<"yen">> -> <<"J", "P", "Y">>]

\* keys every object literal inherits from Object.prototype: symbolMap[key] is
\* truthy for them
ObjectPrototypeKeys == {<<"c", "o", "n", "s", "t", "r", "u", "c", "t", "o", "r">>, <<"t", "o", "S", "t", "r", "i", "n", "g">>, <<"v", "a", "l", "u", "e", "O", "f">>, <<"h", "a", "s", "O", "w", "n", "P", "r", "o", "p", "e", "r", "t", "y">>}

InheritedFunction == [t |-> "fn", s |-> <<>>, n |-> 0]

\* value.length: defined for strings and arrays only
HasLength(v) == v.t \in {"str", "arr"}

LengthOf(v) == IF v.t = "str" THEN Len(v.s) ELSE v.n

CorporateSuffixes == {<<"l", "t", "d">>, <<"i", "n", "c">>, <<"l", "l", "c">>, <<"c", "o", "r", "p">>, <<"c", "o", "r", "p", "o", "r", "a", "t", "i", "o", "n">>, <<"s", "o", "l", "u", "t", "i", "o", "n", "s">>, <<"e", "n", "t", "e", "r", "p", "r", "i", "s", "e", "s">>, <<"l", "a", "b", "s">>, <<"s", "y", "s", "t", "e", "m", "s">>, <<"c", "o">>, <<"l", "i", "m", "i", "t", "e", "d">>}

\* /\\b(ltd|inc|...|s\\.a)\\b/i as written: a backslash, b, the suffix, a backslash, b
hasSuffix(s) ==
    LET l == ToLowerCase(s)
        bs == <<"\\", "b">>
    IN  \/ \E suf \in CorporateSuffixes : Includes(l, bs \o suf \o bs)
        \/ \E i \in 1..(Len(l) - 7) :
              /\ SubSeq(l, i, i + 3) = <<"\\", "b", "s", "\\">>
              /\ l[i + 4] # "\n"
              /\ SubSeq(l, i + 5, i + 7) = <<"a", "\\", "b">>

EmailLocalChars == RangeOf(LowerLetters) \cup RangeOf(UpperLetters) \cup RangeOf(Digits)
                       \cup {".", "_", "%", "+", "-"}

EmailDomainChars == RangeOf(LowerLetters) \cup RangeOf(UpperLetters) \cup RangeOf(Digits)
                        \cup {".", "-"}

Letters == RangeOf(LowerLetters) \cup RangeOf(UpperLetters)

\* /^[a-zA-Z0-9._%+-]+@[a-zA-Z0-9.-]+\\.[a-zA-Z]{2,}$/ as written: after the domain
\* a backslash, any one character, then two or more letters
pocPattern(s) ==
    \E a \in 2..Len(s) : \E b \in (a + 2)..Len(s) :
        /\ s[a] = "@"
        /\ \A i \in 1..(a - 1) : s[i] \in EmailLocalChars
        /\ \A i \in (a + 1)..(b - 1) : s[i] \in EmailDomainChars
        /\ s[b] = "\\"
        /\ b + 3 <= Len(s)
        /\ s[b + 1] # "\n"
        /\ \A i \in (b + 2)..Len(s) : s[i] \in Letters

\* faulty variant: any amount with a digit is accepted
FloorRejected_OnlyNaN(floorNum) == floorNum = NaN

\* isNaN(floorNum) || floorNum < 50 (line 137)
FloorRejected(floorNum) == floorNum = NaN \/ floorNum < 50

validateCoFField(fieldName, value) ==
    IF Falsy(value) \/ (value.t = "str" /\ value.s = S_NotAvailable)
    THEN Invalid("No value found")
    ELSE
    LET lowerFieldName == ToLowerCase(fieldName) IN
    CASE lowerFieldName = FieldName.pod ->
            LET upperValue == ToUpperCase(value.s) IN
            IF upperValue \in validRegions
            THEN Valid("high", Str(upperValue))
            ELSE Invalid("Invalid region code")
      [] lowerFieldName = FieldName.floor_amount_match ->
            LET floorStr == KeepDigits(value.s)
                floorNum == ParseInt(floorStr)
            IN  IF FloorRejected(floorNum)
                THEN Invalid("Floor amount too small or invalid")
                ELSE Valid(IF floorNum >= 1000 THEN "high" ELSE "medium", Str(floorStr))
      [] lowerFieldName = FieldName.company_name ->
            IF HasLength(value) /\ (LengthOf(value) < 3 \/ LengthOf(value) > 100)
            THEN Invalid("Company name length invalid")
            ELSE IF value.t # "str" THEN Threw
            ELSE Valid(IF hasSuffix(value.s) THEN "high" ELSE "medium", Str(Trim(value.s)))
      [] lowerFieldName = FieldName.period ->
            LET periodNum == ParseInt(KeepDigits(value.s)) IN
            IF periodNum = NaN \/ periodNum < 1 \/ periodNum > 120
            THEN Invalid("Period out of range (1-120 months)")
            ELSE Valid("high", Str(NumToString(periodNum)))
      [] lowerFieldName = FieldName.currency ->
            IF ToUpperCase(value.s) \in CurrencyCodes
            THEN IF value.t = "str" THEN Valid("high", Str(ToUpperCase(value.s))) ELSE Threw
            ELSE IF value.s \in DOMAIN symbolMap
            THEN Valid("high", Str(symbolMap[value.s]))
            ELSE IF value.s \in ObjectPrototypeKeys
            THEN Valid("high", InheritedFunction)
            ELSE Invalid("Invalid currency format")
      [] lowerFieldName = FieldName.poc ->
            IF pocPattern(value.s)
            THEN Valid("high", value)
            ELSE Invalid("POC should be email address")
      [] OTHER ->
            IF value.t # "str" THEN Threw
            ELSE [valid |-> Len(value.s) > 0 /\ Len(value.s) < 500,
                  confidence |-> "medium", normalizedValue |-> Str(Trim(value.s)),
                  reason |-> "", threw |-> FALSE]

\* ------------------------------------------------------------------------
\* Document text: a string is the sequence of its lines; null and a value that
\* is no string (a Buffer) are told apart from strings
\* ------------------------------------------------------------------------
\* two blanks
Line ==
    [blank |-> <<" ", " ">>,
     \* Region: NA
     regionPlain |-> <<"R", "e", "g", "i", "o", "n", ":", " ", "N", "A">>,
     \* [X] EMEA
     regionBox |-> <<"[", "X", "]", " ", "E", "M", "E", "A">>,
     \* [x] na
     regionBoxNA |-> <<"[", "x", "]", " ", "n", "a">>,
     \* region\:\APAC
     regionEsc |-> <<"r", "e", "g", "i", "o", "n", "\\", ":", "\\", "A", "P", "A", "C">>,
     \* Floor price: $1,250
     floorPlain |-> <<"F", "l", "o", "o", "r", " ", "p", "r", "i", "c", "e", ":", " ", "$", "1", ",", "2", "5", "0">>,
     \* floor\price\\\\d
     floorEsc |-> <<"f", "l", "o", "o", "r", "\\", "p", "r", "i", "c", "e", "\\", "\\", "\\", "\\", "d">>,
     \* Company: Acme Corp
     companyPlain |-> <<"C", "o", "m", "p", "a", "n", "y", ":", " ", "A", "c", "m", "e", " ", "C", "o", "r", "p">>,
     \* company\:\AcmeCorp
     companyEsc |-> <<"c", "o", "m", "p", "a", "n", "y", "\\", ":", "\\", "A", "c", "m", "e", "C", "o", "r", "p">>,
     \* remarks\:\done
     remarksEsc |-> <<"r", "e", "m", "a", "r", "k", "s", "\\", ":", "\\", "d", "o", "n", "e">>,
     \* Contract period: 36 months
     periodPlain |-> <<"C", "o", "n", "t", "r", "a", "c", "t", " ", "p", "e", "r", "i", "o", "d", ":", " ", "3", "6", " ", "m", "o", "n", "t", "h", "s">>,
     \* customer\detailsssssssssssssssssssssssssssssssssssssssssbilling
     section |-> <<"c", "u", "s", "t", "o", "m", "e", "r", "\\", "d", "e", "t", "a", "i", "l", "s", "s", "s", "s", "s", "s", "s", "s", "s", "s", "s", "s", "s", "s", "s", "s", "s", "s", "s", "s", "s", "s", "s", "s", "s", "s", "s", "s", "s", "s", "s", "s", "s", "s", "s", "s", "s", "s", "s", "s", "s", "b", "i", "l", "l", "i", "n", "g">>,
     sectionMatch |-> <<"c", "u", "s", "t", "o", "m", "e", "r", "\\", "d", "e", "t", "a", "i", "l", "s", "s", "s", "s", "s", "s", "s", "s", "s", "s", "s", "s", "s", "s", "s", "s", "s", "s", "s", "s", "s", "s", "s", "s", "s", "s", "s", "s", "s", "s", "s", "s", "s", "s", "s", "s", "s", "s", "s", "s", "s">>]

\* customer\detailsssssssssssssssssssssssssssssssssssssssss
StrText(lines) == [t |-> "str", lines |-> lines]

NullText == [t |-> "null", lines |-> <<>>]

\* a truthy value without a trim method
BufferText == [t |-> "obj", lines |-> <<>>]

IsBlankLine(line) == \A i \in 1..Len(line) : IsSpace(line[i])

\* !text
TextFalsy(tx) == tx.t = "null" \/ (tx.t = "str" /\ \A i \in 1..Len(tx.lines) : tx.lines[i] = <<>>)

\* text.trim() === '' for a string
TextTrimEmpty(tx) == \A i \in 1..Len(tx.lines) : IsBlankLine(tx.lines[i])

\* a regular expression of the source, named by the place it is written at
Pat(name) == <<name, <<>>>>

\* the generic pattern new RegExp(...) builds from a lower-cased field name
Generic(fieldName) == <<"generic", fieldName>>

\* line.match(pattern) with the g flag: every full match inside one line, for the
\* regular expressions exactly as the source writes them (each \\ of a regex
\* literal is one literal backslash, so \\s* is a backslash followed by s*)
MatchAll(pattern, line) ==
    CASE pattern = Pat("region3") /\ line = Line.regionBox ->
            <<<<"X", "]", " ", "E", "M", "E", "A">>>>
      [] pattern = Pat("region3") /\ line = Line.regionBoxNA ->
            <<<<"x", "]", " ", "n", "a">>>>
      [] pattern = Pat("region1") /\ line = Line.regionEsc ->
            <<<<"r", "e", "g", "i", "o", "n", "\\", ":", "\\", "A", "P", "A", "C">>>>
      [] pattern = Pat("floor1") /\ line = Line.floorEsc ->
            <<<<"f", "l", "o", "o", "r", "\\", "p", "r", "i", "c", "e", "\\", "\\", "\\", "\\", "d">>>>
      [] pattern = Pat("company1") /\ line = Line.companyEsc ->
            <<<<"c", "o", "m", "p", "a", "n", "y", "\\", ":", "\\", "A", "c", "m", "e", "C", "o", "r", "p">>>>
      [] pattern = Generic(FieldName.remarks) /\ line = Line.remarksEsc ->
            <<<<"r", "e", "m", "a", "r", "k", "s", "\\", ":", "\\", "d", "o", "n", "e">>>>
      [] pattern = Pat("section1") /\ line = Line.section ->
            <<<<"c", "u", "s", "t", "o", "m", "e", "r", "\\", "d", "e", "t", "a", "i", "l", "s", "s", "s", "s", "s", "s", "s", "s", "s", "s", "s", "s", "s", "s", "s", "s", "s", "s", "s", "s", "s", "s", "s", "s", "s", "s", "s", "s", "s", "s", "s", "s", "s", "s", "s", "s", "s", "s", "s", "s", "s">>>>
      [] pattern = Pat("section1") /\ line = Line.sectionMatch ->
            <<<<"c", "u", "s", "t", "o", "m", "e", "r", "\\", "d", "e", "t", "a", "i", "l", "s", "s", "s", "s", "s", "s", "s", "s", "s", "s", "s", "s", "s", "s", "s", "s", "s", "s", "s", "s", "s", "s", "s", "s", "s", "s", "s", "s", "s", "s", "s", "s", "s", "s", "s", "s", "s", "s", "s", "s", "s">>>>
      [] OTHER -> <<>>

\* text.match(pattern): the matches of all lines in order (no pattern of the source
\* matches across a line break of these documents)
RECURSIVE TextMatch(_, _)
TextMatch(pattern, lines) ==
    IF lines = <<>> THEN <<>>
    ELSE MatchAll(pattern, Head(lines)) \o TextMatch(pattern, Tail(lines))

customerDetailsPatterns ==
    <<Pat("section1"), Pat("section2"), Pat("section3"), Pat("section4"), Pat("section5")>>

\* extractCustomerDetailsSection: the lines of the returned string ('' is <<>>)
extractCustomerDetailsSection(tx) ==
    IF TextFalsy(tx) THEN <<>>
    ELSE LET hits == {k \in 1..Len(customerDetailsPatterns) :
                        /\ TextMatch(customerDetailsPatterns[k], tx.lines) # <<>>
                        /\ Len(TextMatch(customerDetailsPatterns[k], tx.lines)[1]) > 50}
         IN  IF hits # {}
             THEN LET k == CHOOSE k \in hits : \A j \in hits : k <= j
                  IN  <<TextMatch(customerDetailsPatterns[k], tx.lines)[1]>>
             ELSE tx.lines

\* ------------------------------------------------------------------------
\* AdvancedCoFExtractor.extractFieldsFromOCRText
\* ------------------------------------------------------------------------
Found(v) == [value |-> v, threw |-> FALSE]

FieldThrew == [value |-> Null, threw |-> TRUE]

\* s.match(/(NA|EMEA|APAC|LATAM)/gi)?.[0]: the leftmost region code, in any case
RegionCodeIn(s) ==
    LET at(i) == {c \in validRegions :
                     i + Len(c) - 1 <= Len(s) /\ ToUpperCase(SubSeq(s, i, i + Len(c) - 1)) = c}
        hits == {i \in 1..Len(s) : at(i) # {}}
    IN  IF hits = {} THEN <<>>
        ELSE LET i == CHOOSE i \in hits : \A j \in hits : i <= j
                 c == CHOOSE c \in at(i) : TRUE
             IN  SubSeq(s, i, i + Len(c) - 1)

regionPatterns == <<Pat("region1"), Pat("region2"), Pat("region3")>>

floorPatterns == <<Pat("floor1"), Pat("floor2"), Pat("floor3")>>

companyPatterns == <<Pat("company1"), Pat("company2")>>

periodPatterns == <<Pat("period1"), Pat("period2"), Pat("period3")>>

\* case 'pod': with the g flag match[1] is the second full match, not the group
RECURSIVE PodValue(_, _)
PodValue(lines, k) ==
    IF k > Len(regionPatterns) THEN Found(Null)
    ELSE LET match == TextMatch(regionPatterns[k], lines) IN
         IF match = <<>> THEN PodValue(lines, k + 1)
         ELSE LET region == IF Len(match) >= 2 /\ match[2] # <<>>
                            THEN match[2] ELSE RegionCodeIn(match[1])
              IN  IF region # <<>> THEN Found(Str(ToUpperCase(region)))
                  ELSE PodValue(lines, k + 1)

\* case 'floor_amount_match': match[1].replace throws when there is one match only
RECURSIVE FloorValue(_, _)
FloorValue(lines, k) ==
    IF k > Len(floorPatterns) THEN Found(Null)
    ELSE LET match == TextMatch(floorPatterns[k], lines) IN
         IF match = <<>> THEN FloorValue(lines, k + 1)
         ELSE IF Len(match) < 2 THEN FieldThrew
         ELSE LET amount == KeepDigits(match[2]) IN
              IF amount # <<>> /\ ParseInt(amount) >= 50 THEN Found(Str(amount))
              ELSE FloorValue(lines, k + 1)

\* the first index from p on at which l holds no (lower-case) s
RECURSIVE SkipS(_, _)
SkipS(l, p) == IF p <= Len(l) /\ l[p] = "s" THEN SkipS(l, p + 1) ELSE p

\* company.replace(/^company\\s*:?\\s*/gi, '') as written: company, a backslash,
\* s*, an optional colon, a backslash, s*
StripCompanyPrefix(s) ==
    LET l == ToLowerCase(s)
        head == <<"c", "o", "m", "p", "a", "n", "y", "\\">>
        p1 == SkipS(l, Len(head) + 1)
        p2 == IF p1 <= Len(l) /\ l[p1] = ":" THEN p1 + 1 ELSE p1
    IN  IF StartsWith(l, head) /\ p2 <= Len(l) /\ l[p2] = "\\"
        THEN SubSeq(s, SkipS(l, p2 + 1), Len(s))
        ELSE s

\* case 'company_name'
RECURSIVE CompanyValue(_, _)
CompanyValue(lines, k) ==
    IF k > Len(companyPatterns) THEN Found(Null)
    ELSE LET match == TextMatch(companyPatterns[k], lines) IN
         IF match = <<>> THEN CompanyValue(lines, k + 1)
         ELSE LET first == IF Len(match) >= 2 /\ match[2] # <<>> THEN match[2] ELSE match[1]
                  company == Trim(StripCompanyPrefix(first))
              IN  IF Len(company) > 2 /\ Len(company) < 100 THEN Found(Str(company))
                  ELSE CompanyValue(lines, k + 1)

\* parseInt(s) of any string: its leading digits, NaN when it starts with none
RECURSIVE LeadingDigits(_)
LeadingDigits(s) ==
    IF s # <<>> /\ Head(s) \in RangeOf(Digits) THEN <<Head(s)>> \o LeadingDigits(Tail(s))
    ELSE <<>>

ParseIntLeading(s) == ParseInt(LeadingDigits(TrimLeft(s)))

\* case 'period': parseInt(match[1]) reads the second full match (undefined gives NaN)
RECURSIVE PeriodValue(_, _)
PeriodValue(lines, k) ==
    IF k > Len(periodPatterns) THEN Found(Null)
    ELSE LET match == TextMatch(periodPatterns[k], lines) IN
         IF match = <<>> THEN PeriodValue(lines, k + 1)
         ELSE LET months == IF Len(match) >= 2 THEN ParseIntLeading(match[2]) ELSE NaN IN
              IF months >= 1 /\ months <= 120 THEN Found(Str(NumToString(months)))
              ELSE PeriodValue(lines, k + 1)

\* new RegExp(...) throws a SyntaxError for a field name with an unclosed group
GenericPatternThrows(fieldName) ==
    Cardinality({i \in 1..Len(fieldName) : fieldName[i] = "("})
        # Cardinality({i \in 1..Len(fieldName) : fieldName[i] = ")"})

\* default: genericMatch[1] is the second full match
GenericValue(lines, fieldName) ==
    IF GenericPatternThrows(fieldName) THEN FieldThrew
    ELSE LET genericMatch == TextMatch(Generic(fieldName), lines) IN
         IF Len(genericMatch) >= 2 /\ genericMatch[2] # <<>>
         THEN Found(Str(Trim(genericMatch[2])))
         ELSE Found(Null)

\* the switch of extractFieldsFromOCRText for one field
PatternValue(name, lines) ==
    LET fieldName == ToLowerCase(name) IN
    CASE fieldName = FieldName.pod -> PodValue(lines, 1)
      [] fieldName = FieldName.floor_amount_match -> FloorValue(lines, 1)
      [] fieldName = FieldName.company_name -> CompanyValue(lines, 1)
      [] fieldName = FieldName.period -> PeriodValue(lines, 1)
      [] OTHER -> GenericValue(lines, fieldName)

NameSet(fs) == {fs[i] : i \in 1..Len(fs)}

NonNullCount(data) == Cardinality({k \in DOMAIN data : data[k].t # "null"})

\* the object the catch block returns: { success: false, data: {} }
OcrTextFailed == [success |-> FALSE, data |-> <<>>, extractedFields |-> 0]

extractFieldsFromOCRText(tx, fs) ==
    IF tx.t # "str" THEN OcrTextFailed
    ELSE
    LET customerSection == extractCustomerDetailsSection(tx)
        searchText == IF customerSection # <<>> THEN customerSection ELSE tx.lines
        extractedData == [n \in NameSet(fs) |-> PatternValue(n, searchText).value]
        successfulFields == NonNullCount(extractedData)
    IN  IF \E i \in 1..Len(fs) : PatternValue(fs[i], searchText).threw
        THEN OcrTextFailed
        ELSE [success |-> successfulFields > 0, data |-> extractedData,
              extractedFields |-> successfulFields]

\* ------------------------------------------------------------------------
\* Model adapters: tryGemini, tryGPT4, tryClaude
\* ------------------------------------------------------------------------
\* Response text of a provider, in tokens: the characters { } \ s S that the JSON
\* pattern of the adapters reads, "j" for the members of a JSON object and "w" for
\* any other prose.  payload is the object the members denote.
ClassChars == {"\\", "s", "S"}

\* content.match(/\\{[\\s\\S]*\\}/) as written: a backslash, {, any run of
\* backslash, s or S (greedy), a backslash, }.  <<>> stands for null.
JsonSpan(content) ==
    LET spans == {<<i, j>> \in (1..Len(content)) \X (1..Len(content)) :
                     /\ i + 2 <= j /\ j + 1 <= Len(content)
                     /\ content[i] = "\\" /\ content[i + 1] = "{"
                     /\ \A k \in (i + 2)..(j - 1) : content[k] \in ClassChars
                     /\ content[j] = "\\" /\ content[j + 1] = "}"}
    IN  IF spans = {} THEN <<>>
        ELSE LET i == CHOOSE i \in {sp[1] : sp \in spans} :
                          \A sp \in spans : i <= sp[1]
                 j == CHOOSE j \in {sp[2] : sp \in {q \in spans : q[1] = i}} :
                          \A sp \in {q \in spans : q[1] = i} : sp[2] <= j
             IN  SubSeq(content, i, j + 1)

\* JSON.parse(span): an object text is {, members, }; anything else is a SyntaxError
JsonParses(span) ==
    /\ Len(span) >= 2
    /\ span[1] = "{" /\ span[Len(span)] = "}"
    /\ SubSeq(span, 2, Len(span) - 1) \in {<<>>, <<"j">>}

JsonParse(span, payload) == IF Len(span) = 2 THEN <<>> ELSE payload

NoCandidate == [present |-> FALSE, data |-> <<>>, method |-> "", criticalFieldsFound |-> 0]

\* the body shared by tryGemini, tryGPT4 and tryClaude once the client exists:
\* call the provider, locate the JSON, parse it
tryAdapter(method, response) ==
    IF response.kind # "text" THEN NoCandidate
    ELSE LET jsonMatch == JsonSpan(response.content) IN
         IF jsonMatch = <<>> \/ ~JsonParses(jsonMatch) THEN NoCandidate
         ELSE [present |-> TRUE, data |-> JsonParse(jsonMatch, response.payload),
               method |-> method, criticalFieldsFound |-> 0]

tryGemini(response) == tryAdapter("Google Gemini 1.5 Pro", response)

tryGPT4(response) == tryAdapter("OpenAI GPT-4 Turbo", response)

tryClaude(response) == tryAdapter("Anthropic Claude 3.5", response)

\* ------------------------------------------------------------------------
\* AdvancedCoFExtractor.extractFields
\* ------------------------------------------------------------------------
criticalFields == {FieldName.floor_amount_match, FieldName.company_name, FieldName.opportunity_name}

\* criticalFields.length
CriticalCount == Cardinality(criticalFields)

\* result.data[field.name]
Get(data, name) == IF name \in DOMAIN data THEN data[name] ELSE Undefined

\* validation.valid ? (validation.normalizedValue || value) : null
Accepted(name, value) ==
    LET validation == validateCoFField(name, value) IN
    IF validation.valid
    THEN IF Falsy(validation.normalizedValue) THEN value ELSE validation.normalizedValue
    ELSE Null

\* lines 454-476: validate a candidate and keep the better of it and bestResult;
\* a validator exception is caught by the loop's catch and the candidate is dropped
Evaluate(candidate, fs, best) ==
    IF ~candidate.present THEN [best |-> best, stop |-> FALSE]
    ELSE IF \E i \in 1..Len(fs) : validateCoFField(fs[i], Get(candidate.data, fs[i])).threw
    THEN [best |-> best, stop |-> FALSE]
    ELSE
    LET validatedData == [n \in NameSet(fs) |-> Accepted(n, Get(candidate.data, n))]
        criticalFieldsFound ==
            Cardinality({i \in 1..Len(fs) :
                /\ ToLowerCase(fs[i]) \in criticalFields
                /\ validateCoFField(fs[i], Get(candidate.data, fs[i])).valid})
        validated == [candidate EXCEPT !.data = validatedData,
                                       !.criticalFieldsFound = criticalFieldsFound]
    IN  [best |-> IF ~best.present \/ criticalFieldsFound > best.criticalFieldsFound
                  THEN validated ELSE best,
         stop |-> criticalFieldsFound >= CriticalCount]

NoResult ==
    [success |-> FALSE, data |-> <<>>, method |-> "", error |-> "", hasCritical |-> FALSE,
     extractedFields |-> 0, totalFields |-> 0, criticalFieldsFound |-> 0]

\* faulty variant: the empty result reports success
createEmptyResult_Success(fs) ==
    [success |-> TRUE, data |-> [n \in NameSet(fs) |-> Null],
     method |-> "Advanced CoF Extraction", error |-> "No extraction methods succeeded",
     hasCritical |-> FALSE, extractedFields |-> 0, totalFields |-> Len(fs),
     criticalFieldsFound |-> 0]

createEmptyResult(fs) ==
    [success |-> FALSE, data |-> [n \in NameSet(fs) |-> Null],
     method |-> "Advanced CoF Extraction", error |-> "No extraction methods succeeded",
     hasCritical |-> FALSE, extractedFields |-> 0, totalFields |-> Len(fs),
     criticalFieldsFound |-> 0]

\* faulty variant: the catch block rethrows
TopLevelCatch_Rethrow(fs, message) == [outcome |-> "thrown", result |-> NoResult]

\* the catch block of extractFields (lines 518-531)
TopLevelCatch(fs, message) ==
    [outcome |-> "returned",
     result |-> [success |-> FALSE, data |-> createEmptyResult(fs).data,
                 method |-> "Advanced CoF Extraction (Error)", error |-> message,
                 hasCritical |-> FALSE, extractedFields |-> 0, totalFields |-> Len(fs),
                 criticalFieldsFound |-> 0]]

Returned(r) == [outcome |-> "returned", result |-> r]

\* fallbackToOCR: the pattern extractor over the empty string; pdfPath is not read
fallbackToOCR(path, fs) ==
    LET ocrResult == extractFieldsFromOCRText(StrText(<<>>), fs) IN
    IF ocrResult.success
    THEN [success |-> ocrResult.extractedFields > 0, data |-> ocrResult.data,
          method |-> "OCR Fallback", error |-> "", hasCritical |-> FALSE,
          extractedFields |-> ocrResult.extractedFields, totalFields |-> Len(fs),
          criticalFieldsFound |-> 0]
    ELSE createEmptyResult(fs)

\* lines 488-517: the pattern fallback and the final result
RunsPatternFallback(best, path) == (~best.present \/ best.criticalFieldsFound < 2) /\ path

\* faulty variant: the pattern result is taken without looking at its success flag
AfterFallback_Unchecked(best, tx, fs, path) ==
    IF RunsPatternFallback(best, path)
    THEN [present |-> TRUE, data |-> extractFieldsFromOCRText(tx, fs).data,
          method |-> "OCR Fallback", criticalFieldsFound |-> 0]
    ELSE best

\* faulty variant: the pattern result carries the number of fields it found as its
\* critical-field count
AfterFallback_CountsFields(best, tx, fs, path) ==
    IF RunsPatternFallback(best, path)
    THEN LET ocrResult == extractFieldsFromOCRText(tx, fs) IN
         IF ocrResult.success /\ ocrResult.extractedFields > 0
         THEN [present |-> TRUE, data |-> ocrResult.data, method |-> "OCR Fallback",
               criticalFieldsFound |-> ocrResult.extractedFields]
         ELSE best
    ELSE best

AfterFallback(best, tx, fs, path) ==
    IF RunsPatternFallback(best, path)
    THEN LET ocrResult == extractFieldsFromOCRText(tx, fs) IN
         IF ocrResult.success /\ ocrResult.extractedFields > 0
         THEN [present |-> TRUE, data |-> ocrResult.data, method |-> "OCR Fallback",
               criticalFieldsFound |-> 0]
         ELSE best
    ELSE best

FinalResult(best, fs) ==
    IF ~best.present THEN createEmptyResult(fs)
    ELSE [success |-> NonNullCount(best.data) > 0, data |-> best.data,
          method |-> best.method, error |-> "", hasCritical |-> TRUE,
          extractedFields |-> NonNullCount(best.data), totalFields |-> Len(fs),
          criticalFieldsFound |-> best.criticalFieldsFound]

\* ------------------------------------------------------------------------
\* Inputs of one extractFields call
\* ------------------------------------------------------------------------
\* longest field list built from FieldVocabulary
MaxFields == 2

FieldVocabulary == {FieldName.pod, FieldName.floor_amount_match, FieldName.company_name}

CriticalTriple == <<FieldName.floor_amount_match, FieldName.company_name, FieldName.opportunity_name>>

FieldLists ==
    UNION {[1..n -> FieldVocabulary] : n \in 0..MaxFields}
        \cup {CriticalTriple, <<FieldName.POD_upper>>, <<FieldName.qty_paren, FieldName.pod>>, <<FieldName.remarks>>,
              <<FieldName.period, FieldName.remarks>>}

Texts ==
    {NullText, BufferText, StrText(<<>>), StrText(<<Line.blank>>),
     StrText(<<Line.regionPlain, Line.floorPlain, Line.companyPlain, Line.periodPlain>>),
     StrText(<<Line.regionBox>>),
     StrText(<<Line.regionBox, Line.regionBoxNA>>),
     StrText(<<Line.regionBox, Line.floorEsc>>),
     StrText(<<Line.companyEsc, Line.remarksEsc, Line.remarksEsc>>),
     StrText(<<Line.section, Line.regionBox>>)}

\* objects a provider may describe in its answer
P_allCritical ==
    (FieldName.floor_amount_match :> Str(<<"$", "1", ",", "2", "5", "0">>)) @@
    (FieldName.company_name :> Str(<<"A", "c", "m", "e", " ", "C", "o", "r", "p">>)) @@
    (FieldName.opportunity_name :> Str(<<"Q", "1", " ", "D", "e", "a", "l">>)) @@
    (FieldName.pod :> Str(<<"n", "a">>))

P_partial ==
    (FieldName.floor_amount_match :> Str(<<"$", "1", "2">>)) @@
    (FieldName.company_name :> Str(<<"A", "c", "m", "e", " ", "C", "o", "r", "p">>)) @@
    (FieldName.pod :> Str(<<"E", "U">>)) @@
    (FieldName.remarks :> Num(42))

NoPayload == <<>>

TextResponse(content, payload) == [kind |-> "text", content |-> content, payload |-> payload]

\* what a provider call can do: reject (network, auth, rate limit) or answer with text
Responses ==
    {[kind |-> "error", content |-> <<>>, payload |-> NoPayload],
     TextResponse(<<"w">>, NoPayload),
     TextResponse(<<"\\", "{", "s", "\\", "}">>, NoPayload),
     TextResponse(<<"{", "j", "}">>, P_allCritical),
     TextResponse(<<"w", "{", "j", "}", "w">>, P_partial)}

KeySets == [google : BOOLEAN, openai : BOOLEAN, anthropic : BOOLEAN]

Call(adapter, response) == [adapter |-> adapter, response |-> response]

\* ------------------------------------------------------------------------
\* extractFields as a sequence of awaited steps
\* ------------------------------------------------------------------------
BatchIdle == [pc |-> "idle"]

ScanIdle == [pc |-> "idle"]

ValidateIdle == [pc |-> "idle"]

EvaluateIdle == [pc |-> "idle"]

OcrIdle == [pc |-> "idle"]

PatternIdle == [pc |-> "idle"]

Init ==
    /\ text \in Texts
    /\ fields \in FieldLists
    /\ pdfPath \in BOOLEAN
    /\ keys \in KeySets
    /\ pc = "start"
    /\ bestResult = NoCandidate
    /\ calls = <<>>
    /\ ocrCalls = <<>>
    /\ oc = OcrIdle
    /\ pf = PatternIdle
    /\ patternRuns = <<>>
    /\ outcome = "running"
    /\ result = NoResult
    /\ bx = BatchIdle
    /\ sc = ScanIdle
    /\ va = ValidateIdle
    /\ vc = EvaluateIdle

Finished(r) ==
    /\ pc' = "done"
    /\ outcome' = r.outcome
    /\ result' = r.result

\* lines 426-438: the empty-text branch, or on to the adapters
Enter ==
    /\ pc = "start"
    /\ IF text.t = "obj"
       THEN /\ Finished(TopLevelCatch(fields, "text.trim is not a function"))
            /\ UNCHANGED patternRuns
       ELSE IF TextFalsy(text) \/ TextTrimEmpty(text)
       THEN IF pdfPath
            THEN /\ Finished(Returned(fallbackToOCR(pdfPath, fields)))
                 /\ patternRuns' = Append(patternRuns, StrText(<<>>))
            ELSE /\ Finished(Returned(createEmptyResult(fields)))
                 /\ UNCHANGED patternRuns
       ELSE /\ pc' = "gemini"
            /\ UNCHANGED <<outcome, result, patternRuns>>
    /\ UNCHANGED <<text, fields, pdfPath, keys, bestResult, calls, ocrCalls, bx, sc, va, vc, oc, pf>>

\* faulty variant: an adapter that yields no candidate ends the loop
AdapterStep_StopOnFailure(here, next, configured, adapter) ==
    /\ pc = here
    /\ IF configured
       THEN \E response \in Responses :
              LET candidate == CASE adapter = "gemini" -> tryGemini(response)
                                  [] adapter = "gpt4" -> tryGPT4(response)
                                  [] adapter = "claude" -> tryClaude(response)
                  ev == Evaluate(candidate, fields, bestResult)
              IN
              /\ calls' = Append(calls, Call(adapter, response))
              /\ bestResult' = ev.best
              /\ pc' = IF ev.stop \/ ~candidate.present THEN "fallback" ELSE next
       ELSE /\ pc' = next
            /\ UNCHANGED <<calls, bestResult>>
    /\ UNCHANGED <<text, fields, pdfPath, keys, ocrCalls, patternRuns, outcome, result,
                   bx, sc, va, vc, oc, pf>>

\* one pass of the loop over llmMethods (lines 451-486)
AdapterStep(here, next, configured, adapter) ==
    /\ pc = here
    /\ IF configured
       THEN \E response \in Responses :
              LET candidate == CASE adapter = "gemini" -> tryGemini(response)
                                  [] adapter = "gpt4" -> tryGPT4(response)
                                  [] adapter = "claude" -> tryClaude(response)
                  ev == Evaluate(candidate, fields, bestResult)
              IN
              /\ calls' = Append(calls, Call(adapter, response))
              /\ bestResult' = ev.best
              /\ pc' = IF ev.stop THEN "fallback" ELSE next
       ELSE /\ pc' = next
            /\ UNCHANGED <<calls, bestResult>>
    /\ UNCHANGED <<text, fields, pdfPath, keys, ocrCalls, patternRuns, outcome, result,
                   bx, sc, va, vc, oc, pf>>

StepGemini == AdapterStep("gemini", "gpt4", keys.google, "gemini")

StepGPT4 == AdapterStep("gpt4", "claude", keys.openai, "gpt4")

\* faulty variant: Claude is started in Gemini's place
StepClaude_First == AdapterStep("gemini", "gpt4", keys.anthropic, "claude")

StepClaude == AdapterStep("claude", "fallback", keys.anthropic, "claude")

\* lines 488-517
Finish ==
    /\ pc = "fallback"
    /\ bestResult' = AfterFallback(bestResult, text, fields, pdfPath)
    /\ patternRuns' = IF RunsPatternFallback(bestResult, pdfPath)
                      THEN Append(patternRuns, text) ELSE patternRuns
    /\ Finished(Returned(FinalResult(bestResult', fields)))
    /\ UNCHANGED <<text, fields, pdfPath, keys, calls, ocrCalls, bx, sc, va, vc, oc, pf>>

Next == Enter \/ StepGemini \/ StepGPT4 \/ StepClaude \/ Finish

Spec == Init /\ [][Next]_vars

\* ------------------------------------------------------------------------
\* AIExtractor: extractDataFromText, processAIResult, extractWithOCR,
\* handleExtractionError, batchExtract
\* ------------------------------------------------------------------------
\* result.match(/\{[\s\S]*\}/): from the first { to the last } (greedy); <<>> is null
JsonSpanGreedy(content) ==
    LET opens == {i \in 1..Len(content) : content[i] = "{"}
        first == CHOOSE i \in opens : \A k \in opens : i <= k
        closes == {j \in 1..Len(content) : content[j] = "}" /\ j > first}
    IN  IF opens = {} \/ closes = {} THEN <<>>
        ELSE SubSeq(content, first, CHOOSE j \in closes : \A k \in closes : k <= j)

NotFoundText == Str(S_NotAvailable)

AIResult(success, data, fileName, method, error) ==
    [success |-> success, data |-> data, fileName |-> fileName, method |-> method,
     error |-> error]

\* processAIResult for the default document type: threw is TRUE when no JSON is found
\* or JSON.parse fails
processAIResult(response, fs, fileName, aiServiceName) ==
    LET jsonMatch == JsonSpanGreedy(response.content) IN
    IF jsonMatch = <<>> \/ ~JsonParses(jsonMatch)
    THEN [threw |-> TRUE, result |-> AIResult(FALSE, <<>>, fileName, "", "")]
    ELSE LET extractedData == JsonParse(jsonMatch, response.payload)
             processedData == [n \in NameSet(fs) |->
                                  IF Falsy(Get(extractedData, n)) THEN NotFoundText
                                  ELSE Get(extractedData, n)]
         IN  [threw |-> FALSE,
              result |-> AIResult(TRUE, processedData, fileName, aiServiceName, "")]

\* fields.forEach(field => defaultData[field.name] = 'N/A')
DefaultData(fs) == [n \in NameSet(fs) |-> NotFoundText]

\* extractFieldWithPatterns builds new RegExp(fieldName + ...) for a field of no
\* keyword category: a SyntaxError for a name with an unclosed group
KeywordCategories ==
    {<<"d", "a", "t", "e">>, <<"a", "m", "o", "u", "n", "t">>, <<"t", "o", "t", "a", "l">>,
     <<"e", "m", "a", "i", "l">>, <<"p", "h", "o", "n", "e">>,
     <<"i", "n", "v", "o", "i", "c", "e">>}

FieldPatternThrows(name) ==
    /\ \A kw \in KeywordCategories : ~Includes(ToLowerCase(name), kw)
    /\ GenericPatternThrows(ToLowerCase(name))

\* extractWithOCR: ocr is what ocrService.extractTextFromPDF returns, found the
\* fields whose pattern matches the recognized text
extractWithOCR(ocr, found, fs, fileName) ==
    IF ~ocr.success \/ ~ocr.hasText
    THEN AIResult(FALSE, DefaultData(fs), fileName, "OCR", "OCR extraction failed")
    ELSE IF \E i \in 1..Len(fs) : FieldPatternThrows(fs[i])
    THEN AIResult(FALSE, DefaultData(fs), fileName, "OCR", "OCR extraction failed")
    ELSE AIResult(TRUE,
                  [n \in NameSet(fs) |-> IF n \in found THEN Str(<<"v">>) ELSE NotFoundText],
                  fileName, "OCR", "")

\* faulty variant: Gemini is asked first
aiMethods_GeminiFirst == <<"google", "openai", "anthropic">>

\* lines 285-289
aiMethods == <<"anthropic", "openai", "google">>

MethodName(service) ==
    CASE service = "anthropic" -> "Claude (Anthropic)"
      [] service = "openai" -> "OpenAI GPT-4"
      [] service = "google" -> "Google Gemini"

\* a provider answer that is falsy (no text)
EmptyResponse == [kind |-> "empty", content |-> <<>>, payload |-> NoPayload]

\* the loop over aiMethods (lines 291-305) from the k-th method on
RECURSIVE TryServices(_, _, _, _, _)
TryServices(k, ks, resp, fs, fileName) ==
    IF k > Len(aiMethods)
    THEN [returned |-> FALSE, result |-> AIResult(FALSE, <<>>, fileName, "", ""),
          called |-> <<>>]
    ELSE
    LET service == aiMethods[k]
        rest == TryServices(k + 1, ks, resp, fs, fileName)
        later == [rest EXCEPT !.called = <<service>> \o rest.called]
    IN  IF ~ks[service] THEN rest
        ELSE IF resp[service].kind \in {"error", "empty"} THEN later
        ELSE LET processed == processAIResult(resp[service], fs, fileName,
                                              MethodName(service))
             IN  IF processed.threw THEN later
                 ELSE [returned |-> TRUE, result |-> processed.result,
                       called |-> <<service>>]

\* faulty variant: the extractor counts as configured without any client
isConfigured_Always(ks) == TRUE

\* this.isConfigured (line 183)
isConfigured(ks) == ks.openai \/ ks.anthropic \/ ks.google

\* faulty variant: after the providers have failed the error is thrown even when a
\* pdfPath is given
extractDataFromText_NoOcrAfterProviders(doc, fs, ks, resp, ocr, found) ==
    LET viaOCR == [threw |-> FALSE, message |-> "",
                   result |-> extractWithOCR(ocr, found, fs, doc.fileName),
                   called |-> <<>>, ocr |-> <<ocr>>]
        tried == TryServices(1, ks, resp, fs, doc.fileName)
    IN  IF ~isConfigured(ks) /\ doc.pdfPath THEN viaOCR
        ELSE IF ~isConfigured(ks)
        THEN [threw |-> TRUE,
              message |-> "AI extraction not available - no valid API keys configured and no PDF path for OCR.",
              result |-> AIResult(FALSE, <<>>, doc.fileName, "", ""),
              called |-> <<>>, ocr |-> <<>>]
        ELSE IF tried.returned
        THEN [threw |-> FALSE, message |-> "", result |-> tried.result,
              called |-> tried.called, ocr |-> <<>>]
        ELSE [threw |-> TRUE,
              message |-> "All AI extraction methods failed and no PDF path available for OCR fallback",
              result |-> AIResult(FALSE, <<>>, doc.fileName, "", ""),
              called |-> tried.called, ocr |-> <<>>]

\* extractDataFromText: the value it returns or the error it throws, with the
\* provider calls and the OCR calls it made
extractDataFromText(doc, fs, ks, resp, ocr, found) ==
    LET viaOCR == [threw |-> FALSE, message |-> "",
                   result |-> extractWithOCR(ocr, found, fs, doc.fileName),
                   called |-> <<>>, ocr |-> <<ocr>>]
        tried == TryServices(1, ks, resp, fs, doc.fileName)
    IN  IF ~isConfigured(ks) /\ doc.pdfPath THEN viaOCR
        ELSE IF ~isConfigured(ks)
        THEN [threw |-> TRUE,
              message |-> "AI extraction not available - no valid API keys configured and no PDF path for OCR.",
              result |-> AIResult(FALSE, <<>>, doc.fileName, "", ""),
              called |-> <<>>, ocr |-> <<>>]
        ELSE IF tried.returned
        THEN [threw |-> FALSE, message |-> "", result |-> tried.result,
              called |-> tried.called, ocr |-> <<>>]
        ELSE IF doc.pdfPath THEN [viaOCR EXCEPT !.called = tried.called]
        ELSE [threw |-> TRUE,
              message |-> "All AI extraction methods failed and no PDF path available for OCR fallback",
              result |-> AIResult(FALSE, <<>>, doc.fileName, "", ""),
              called |-> tried.called, ocr |-> <<>>]

\* error messages that name a rejected key (line 497), and the one naming a 401
AuthMessages == {"authentication_error", "invalid x-api-key"}

\* faulty variant: the error is dropped from the default structure
handleExtractionError_NoError(message, fs, fileName) ==
    AIResult(FALSE, DefaultData(fs), fileName, "", "")

handleExtractionError(message, fs, fileName) ==
    AIResult(FALSE, DefaultData(fs), fileName, "",
             IF message \in AuthMessages
             THEN "Invalid API key. Please check your API keys in the .env file."
             ELSE IF message = "401"
             THEN "API authentication failed. Please verify your API keys in the .env file and restart the server."
             ELSE message)

\* longest batch
MaxDocs == 2

DocNames == <<"doc1.pdf", "doc2.pdf", "doc3.pdf", "doc4.pdf", "doc5.pdf">>

\* the documents of a batch: the i-th is named DocNames[i]; pdfPath may be absent
DocLists ==
    UNION {{[i \in 1..n |-> [fileName |-> DocNames[i], pdfPath |-> pp[i]]] :
               pp \in [1..n -> BOOLEAN]} : n \in 0..MaxDocs}

BatchFields == {<<FieldName.pod, FieldName.remarks>>, <<FieldName.qty_paren>>}

AIResponses ==
    {[kind |-> "error", content |-> <<>>, payload |-> NoPayload],
     EmptyResponse,
     TextResponse(<<"w">>, NoPayload),
     TextResponse(<<"w", "{", "j", "}", "w">>, P_partial)}

OcrOutcomes == {[success |-> TRUE, hasText |-> TRUE], [success |-> FALSE, hasText |-> FALSE]}

\* what the configured services answer; a service without a key is never called
ServiceAnswers(ks) ==
    {resp \in [{"anthropic", "openai", "google"} -> AIResponses] :
        \A sv \in DOMAIN resp : ~ks[sv] => resp[sv] = EmptyResponse}

BatchKeySets ==
    {[google |-> g, openai |-> FALSE, anthropic |-> a] : g, a \in BOOLEAN}
    \cup {[google |-> TRUE, openai |-> TRUE, anthropic |-> TRUE]}

InitBatch ==
    /\ bx \in {[pc |-> "loop", documents |-> d, fields |-> f, keys |-> k, i |-> 1,
                results |-> <<>>, threwAt |-> {}, called |-> <<>>, ocr |-> <<>>] :
                  d \in DocLists, f \in BatchFields, k \in BatchKeySets}
    /\ text = NullText
    /\ fields = <<>>
    /\ pdfPath = FALSE
    /\ keys = [google |-> FALSE, openai |-> FALSE, anthropic |-> FALSE]
    /\ pc = "idle"
    /\ bestResult = NoCandidate
    /\ calls = <<>>
    /\ ocrCalls = <<>>
    /\ oc = OcrIdle
    /\ pf = PatternIdle
    /\ patternRuns = <<>>
    /\ outcome = "running"
    /\ result = NoResult
    /\ sc = ScanIdle
    /\ va = ValidateIdle
    /\ vc = EvaluateIdle

\* one pass of the loop of batchExtract (lines 525-542): the document's extraction
\* and the push of its result, or of the default structure when it throws
BatchDocument ==
    /\ bx.pc = "loop"
    /\ bx.i <= Len(bx.documents)
    /\ \E resp \in ServiceAnswers(bx.keys) :
       \E ocr \in OcrOutcomes : \E found \in {{}, NameSet(bx.fields)} :
          LET doc == bx.documents[bx.i]
              r == extractDataFromText(doc, bx.fields, bx.keys, resp, ocr, found)
          IN  bx' = [bx EXCEPT
                       !.results = Append(@, IF r.threw
                                             THEN handleExtractionError(r.message, bx.fields,
                                                                        doc.fileName)
                                             ELSE r.result),
                       !.threwAt = IF r.threw THEN @ \cup {bx.i} ELSE @,
                       !.called = r.called,
                       !.ocr = r.ocr,
                       !.i = @ + 1]
    /\ UNCHANGED <<extractVars, sc, va, vc, oc, pf>>

\* return results (line 544)
BatchReturn ==
    /\ bx.pc = "loop"
    /\ bx.i > Len(bx.documents)
    /\ bx' = [bx EXCEPT !.pc = "done"]
    /\ UNCHANGED <<extractVars, sc, va, vc, oc, pf>>

NextBatch == BatchDocument \/ BatchReturn

SpecBatch == InitBatch /\ [][NextBatch]_vars

\* ---- one call of extractDataFromText with the answers of the providers fixed ----
NoOutcome == [threw |-> FALSE, message |-> "", result |-> AIResult(FALSE, <<>>, "", "", ""),
              called |-> <<>>, ocr |-> <<>>]

\* the answers of AIResponses, and one where braces follow the JSON object, which
\* the search of processAIResult does not parse
ServiceResponses ==
    AIResponses \cup {TextResponse(<<"{", "j", "}", "w", "{", "w", "}">>, P_partial)}

AllKeySets == [{"google", "openai", "anthropic"} -> BOOLEAN]

InitServices ==
    /\ bx \in UNION {
          {[pc |-> "call", doc |-> [fileName |-> DocNames[1], pdfPath |-> pp],
            fields |-> f, keys |-> k, resp |-> resp, ocr |-> ocr,
            returned |-> NoOutcome] :
              pp \in BOOLEAN, f \in BatchFields,
              resp \in {x \in [{"anthropic", "openai", "google"} -> ServiceResponses] :
                           \A sv \in DOMAIN x : ~k[sv] => x[sv] = EmptyResponse},
              ocr \in OcrOutcomes} : k \in AllKeySets}
    /\ text = NullText
    /\ fields = <<>>
    /\ pdfPath = FALSE
    /\ keys = [google |-> FALSE, openai |-> FALSE, anthropic |-> FALSE]
    /\ pc = "idle"
    /\ bestResult = NoCandidate
    /\ calls = <<>>
    /\ ocrCalls = <<>>
    /\ oc = OcrIdle
    /\ pf = PatternIdle
    /\ patternRuns = <<>>
    /\ outcome = "running"
    /\ result = NoResult
    /\ sc = ScanIdle
    /\ va = ValidateIdle
    /\ vc = EvaluateIdle

\* extractDataFromText(doc.text, fields, doc.fileName, 'general', doc.pdfPath)
CallServices ==
    /\ bx.pc = "call"
    /\ \E found \in {{}, NameSet(bx.fields)} :
          bx' = [bx EXCEPT
                    !.pc = "returned",
                    !.returned = extractDataFromText(bx.doc, bx.fields, bx.keys, bx.resp,
                                                     bx.ocr, found)]
    /\ UNCHANGED <<extractVars, sc, va, vc, oc, pf>>

NextServices == CallServices

SpecServices == InitServices /\ [][NextServices]_vars

\* ---- POST /extract-local (routes/extraction.js lines 41-101) ----
\* what pdfProcessor.processPDF makes of a file: text, no text, or a failure
ProcessedKinds == {"text", "empty", "failed"}

\* the files getLocalPDFs returned: the i-th has the path DocNames[i]
PdfFileLists ==
    UNION {{[i \in 1..n |-> [path |-> DocNames[i], processed |-> kinds[i]]] :
               kinds \in [1..n -> ProcessedKinds]} : n \in 0..MaxDocs}

\* doc.pdfPath as batchExtract reads it (line 532): undefined, which is falsy, for
\* an object without that property
PdfPathOf(doc) == IF "pdfPath" \in DOMAIN doc THEN doc.pdfPath ELSE FALSE

InitRoute ==
    /\ bx \in {[pc |-> "process", pdfFiles |-> files, fields |-> f, keys |-> k,
                 file |-> 1, documents |-> <<>>, i |-> 1, results |-> <<>>,
                 threwAt |-> {}, passed |-> <<>>, failedAll |-> {}, called |-> <<>>,
                 ocr |-> <<>>, response |-> "none"] :
                   files \in PdfFileLists, f \in BatchFields, k \in BatchKeySets}
    /\ text = NullText
    /\ fields = <<>>
    /\ pdfPath = FALSE
    /\ keys = [google |-> FALSE, openai |-> FALSE, anthropic |-> FALSE]
    /\ pc = "idle"
    /\ bestResult = NoCandidate
    /\ calls = <<>>
    /\ ocrCalls = <<>>
    /\ oc = OcrIdle
    /\ pf = PatternIdle
    /\ patternRuns = <<>>
    /\ outcome = "running"
    /\ result = NoResult
    /\ sc = ScanIdle
    /\ va = ValidateIdle
    /\ vc = EvaluateIdle

\* pdfFiles.length === 0: the route answers without extracting (lines 57-64)
RouteNoFiles ==
    /\ bx.pc = "process"
    /\ bx.pdfFiles = <<>>
    /\ bx' = [bx EXCEPT !.pc = "responded", !.response = "No PDF files found"]
    /\ UNCHANGED <<extractVars, sc, va, vc, oc, pf>>

\* one pass of the loop over pdfFiles (lines 70-79): a processed file with text
\* becomes a document with the properties fileName, text and filePath
RouteProcessFile ==
    /\ bx.pc = "process"
    /\ bx.file <= Len(bx.pdfFiles)
    /\ LET file == bx.pdfFiles[bx.file] IN
        bx' = [bx EXCEPT
                  !.documents = IF file.processed = "text"
                                THEN Append(@, [fileName |-> file.path, text |-> TRUE,
                                                filePath |-> file.path])
                                ELSE @,
                  !.file = @ + 1]
    /\ UNCHANGED <<extractVars, sc, va, vc, oc, pf>>

\* aiExtractor.batchExtract(documents, fields, documentType) is called (line 85)
RouteBatchExtract ==
    /\ bx.pc = "process"
    /\ bx.pdfFiles # <<>>
    /\ bx.file > Len(bx.pdfFiles)
    /\ bx' = [bx EXCEPT !.pc = "extract"]
    /\ UNCHANGED <<extractVars, sc, va, vc, oc, pf>>

\* one pass of the loop of batchExtract (lines 525-542) for a document of the route
RouteDocument ==
    /\ bx.pc = "extract"
    /\ bx.i <= Len(bx.documents)
    /\ \E resp \in ServiceAnswers(bx.keys) :
       \E ocr \in OcrOutcomes : \E found \in {{}, NameSet(bx.fields)} :
          LET doc == bx.documents[bx.i]
              arg == [fileName |-> doc.fileName, pdfPath |-> PdfPathOf(doc)]
              r == extractDataFromText(arg, bx.fields, bx.keys, resp, ocr, found)
              tried == TryServices(1, bx.keys, resp, bx.fields, doc.fileName)
          IN  bx' = [bx EXCEPT
                       !.results = Append(@, IF r.threw
                                             THEN handleExtractionError(r.message, bx.fields,
                                                                        doc.fileName)
                                             ELSE r.result),
                       !.threwAt = IF r.threw THEN @ \cup {bx.i} ELSE @,
                       !.passed = Append(@, arg.pdfPath),
                       !.failedAll = IF isConfigured(bx.keys) /\ ~tried.returned
                                     THEN @ \cup {bx.i} ELSE @,
                       !.called = Append(@, r.called),
                       !.ocr = Append(@, r.ocr),
                       !.i = @ + 1]
    /\ UNCHANGED <<extractVars, sc, va, vc, oc, pf>>

\* res.json({success: true, ..., results}) (lines 87-95)
RouteRespond ==
    /\ bx.pc = "extract"
    /\ bx.i > Len(bx.documents)
    /\ bx' = [bx EXCEPT !.pc = "responded", !.response = "results"]
    /\ UNCHANGED <<extractVars, sc, va, vc, oc, pf>>

NextRoute ==
    \/ RouteNoFiles
    \/ RouteProcessFile
    \/ RouteBatchExtract
    \/ RouteDocument
    \/ RouteRespond

SpecRoute == InitRoute /\ [][NextRoute]_vars

\* ------------------------------------------------------------------------
\* The two extraction entry points side by side: a run is one extractFields call
\* or one batch of extractDataFromText calls
\* ------------------------------------------------------------------------
InitExtraction == Init \/ InitBatch

NextExtraction == Next \/ NextBatch

SpecExtraction == InitExtraction /\ [][NextExtraction]_vars

\* ------------------------------------------------------------------------
\* Provider calls whose promise never settles.  Neither tryGemini, tryGPT4,
\* tryClaude nor callAIService passes a timeout or an abort signal, and no caller
\* races the call against a timer: the await of such a call does not resume
\* ------------------------------------------------------------------------
\* model.generateContent / chat.completions.create / messages.create awaited by
\* the adapter the loop of extractFields is at (lines 202, 236, 276)
AdapterCallPending ==
    /\ \/ pc = "gemini" /\ keys.google
       \/ pc = "gpt4" /\ keys.openai
       \/ pc = "claude" /\ keys.anthropic
    /\ calls' = Append(calls, Call(pc, [kind |-> "pending", content |-> <<>>,
                                        payload |-> NoPayload]))
    /\ pc' = "awaiting"
    /\ UNCHANGED <<text, fields, pdfPath, keys, bestResult, ocrCalls, patternRuns,
                   outcome, result, bx, sc, va, vc, oc, pf>>

\* callAIService awaited by extractDataFromText (line 296) for the current document:
\* the services before sv have failed, the call of sv stays pending
ServiceCallPending ==
    /\ bx.pc = "loop"
    /\ bx.i <= Len(bx.documents)
    /\ \E k \in 1..Len(aiMethods) :
          /\ bx.keys[aiMethods[k]]
          /\ bx' = [bx EXCEPT !.pc = "awaiting",
                              !.called = SelectSeq(SubSeq(aiMethods, 1, k),
                                                   LAMBDA sv : bx.keys[sv])]
    /\ UNCHANGED <<extractVars, sc, va, vc, oc, pf>>

NextPending == NextExtraction \/ AdapterCallPending \/ ServiceCallPending

\* the runs of one text with either of two field lists, and the batches of at most
\* one document
InitPending ==
    \/ /\ Init
       /\ text = StrText(<<Line.regionBox>>)
       /\ fields \in {CriticalTriple, <<FieldName.company_name>>}
    \/ /\ InitBatch
       /\ Len(bx.documents) <= 1
       /\ bx.fields = <<FieldName.pod, FieldName.remarks>>

\* every continuation that is ready is run by the event loop
SpecPending == InitPending /\ [][NextPending]_vars /\ WF_vars(NextExtraction)

\* ------------------------------------------------------------------------
\* FolderReader.scanFolderRecursively
\* ------------------------------------------------------------------------
maxDepth == 15

skipDirs ==
    <<<<"n", "o", "d", "e", "_", "m", "o", "d", "u", "l", "e", "s">>,
      <<".", "g", "i", "t">>,
      <<".", "v", "s", "c", "o", "d", "e">>,
      <<".", "v", "s">>,
      <<"d", "i", "s", "t">>,
      <<"b", "u", "i", "l", "d">>,
      <<".", "n", "e", "x", "t">>,
      <<"_", "_", "p", "y", "c", "a", "c", "h", "e", "_", "_">>,
      <<"t", "a", "r", "g", "e", "t">>,
      <<"b", "i", "n">>,
      <<"o", "b", "j">>,
      <<".", "g", "r", "a", "d", "l", "e">>,
      <<".", "i", "d", "e", "a">>,
      <<"t", "e", "m", "p">>,
      <<"t", "m", "p">>,
      <<"c", "a", "c", "h", "e">>,
      <<"l", "o", "g", "s">>,
      <<"l", "o", "g">>,
      <<"b", "a", "c", "k", "u", "p">>,
      <<"b", "a", "c", "k", "u", "p", "s">>,
      <<"S", "y", "s", "t", "e", "m", " ", "V", "o", "l", "u", "m", "e", " ", "I", "n", "f", "o", "r", "m", "a", "t", "i", "o", "n">>,
      <<"W", "i", "n", "d", "o", "w", "s">>,
      <<"$", "R", "e", "c", "y", "c", "l", "e", ".", "B", "i", "n">>,
      <<"R", "e", "c", "o", "v", "e", "r", "y">>>>

\* skipDirs.some(skip => item.toLowerCase().includes(skip.toLowerCase()))
InSkipDirs(item) ==
    \E k \in 1..Len(skipDirs) : Includes(ToLowerCase(item), ToLowerCase(skipDirs[k]))

\* faulty variant: the files loop consults the denylist as well
SkippedAsFile_Denylist(item) ==
    \/ StartsWith(item, <<".">>) \/ StartsWith(item, <<"$">>) \/ StartsWith(item, <<"~">>)
    \/ InSkipDirs(item)

\* the first loop skips hidden, system and temporary names (line 282)
SkippedAsFile(item) ==
    StartsWith(item, <<".">>) \/ StartsWith(item, <<"$">>) \/ StartsWith(item, <<"~">>)

\* faulty variant: the denylist is compared with the case of the name kept
SkippedAsDirectory_CaseSensitive(item) ==
    \/ StartsWith(item, <<".">>)
    \/ StartsWith(item, <<"$">>)
    \/ \E k \in 1..Len(skipDirs) : Includes(item, skipDirs[k])

\* the second loop skips hidden and system names and the denylist (lines 316-317)
SkippedAsDirectory(item) ==
    StartsWith(item, <<".">>) \/ StartsWith(item, <<"$">>) \/ InSkipDirs(item)

\* path.extname of a name without separators: from its last dot on, '' when the
\* name has no dot or only a leading one
ExtName(item) ==
    LET dots == {i \in 1..Len(item) : item[i] = "."}
        last == CHOOSE i \in dots : \A k \in dots : k <= i
    IN  IF dots = {} THEN <<>>
        ELSE IF \A i \in 1..(last - 1) : item[i] = "." THEN <<>>
        ELSE SubSeq(item, last, Len(item))

IsPdf(item) == ToLowerCase(ExtName(item)) = <<".", "p", "d", "f">>

\* the files loop (lines 280-310) from the k-th item on; stopped is the return at
\* line 302
RECURSIVE FilesLoop(_, _, _, _, _)
\* faulty variant: a failing stat ends the files loop
FilesLoop_StatFailureEnds(items, folderPath, k, files, maxFiles) ==
    IF k > Len(items) THEN [files |-> files, stopped |-> FALSE]
    ELSE LET item == items[k] IN
         IF ~SkippedAsFile(item.name) /\ item.statFails
         THEN [files |-> files, stopped |-> FALSE]
         ELSE IF SkippedAsFile(item.name) \/ item.kind # "file" \/ ~IsPdf(item.name)
         THEN FilesLoop(items, folderPath, k + 1, files, maxFiles)
         ELSE LET pushed == Append(files, Append(folderPath, item.name)) IN
              IF Len(pushed) >= maxFiles THEN [files |-> pushed, stopped |-> TRUE]
              ELSE FilesLoop(items, folderPath, k + 1, pushed, maxFiles)

FilesLoop(items, folderPath, k, files, maxFiles) ==
    IF k > Len(items) THEN [files |-> files, stopped |-> FALSE]
    ELSE LET item == items[k] IN
         IF SkippedAsFile(item.name) \/ item.statFails \/ item.kind # "file"
            \/ ~IsPdf(item.name)
         THEN FilesLoop(items, folderPath, k + 1, files, maxFiles)
         ELSE LET pushed == Append(files, Append(folderPath, item.name)) IN
              IF Len(pushed) >= maxFiles THEN [files |-> pushed, stopped |-> TRUE]
              ELSE FilesLoop(items, folderPath, k + 1, pushed, maxFiles)

\* faulty variant: the subdirectory loop is entered at any depth
MayDescend_AnyDepth(files, depth, maxFiles) == Len(files) < maxFiles

\* line 313
MayDescend(files, depth, maxFiles) == Len(files) < maxFiles /\ depth < maxDepth

\* scanFolderRecursively(folderPath, depth, maxFiles) over the file system fsys, where
\* dir is the directory folderPath names: the files it returns and the calls made
RECURSIVE scanFolderRecursively(_, _, _, _, _)
RECURSIVE DirsLoop(_, _, _, _, _, _, _, _)
\* faulty variant: the recursive call passes its own depth on
DirsLoop_SameDepth(fsys, items, folderPath, depth, k, files, made, maxFiles) ==
    IF k > Len(items) THEN [files |-> files, calls |-> made]
    ELSE LET item == items[k] IN
         IF SkippedAsDirectory(item.name) \/ item.statFails \/ item.kind # "dir"
         THEN DirsLoop(fsys, items, folderPath, depth, k + 1, files, made, maxFiles)
         ELSE LET sub == scanFolderRecursively(fsys, item.dir,
                                               Append(folderPath, item.name),
                                               depth, maxFiles - Len(files))
                  all == files \o sub.files
              IN  IF Len(all) >= maxFiles
                  THEN [files |-> all, calls |-> made \o sub.calls]
                  ELSE DirsLoop(fsys, items, folderPath, depth, k + 1, all,
                                made \o sub.calls, maxFiles)

\* faulty variant: the files of a subdirectory are put in front of the files found
\* so far
DirsLoop_SubFilesFirst(fsys, items, folderPath, depth, k, files, made, maxFiles) ==
    IF k > Len(items) THEN [files |-> files, calls |-> made]
    ELSE LET item == items[k] IN
         IF SkippedAsDirectory(item.name) \/ item.statFails \/ item.kind # "dir"
         THEN DirsLoop(fsys, items, folderPath, depth, k + 1, files, made, maxFiles)
         ELSE LET sub == scanFolderRecursively(fsys, item.dir,
                                               Append(folderPath, item.name),
                                               depth + 1, maxFiles - Len(files))
                  all == sub.files \o files
              IN  IF Len(all) >= maxFiles
                  THEN [files |-> all, calls |-> made \o sub.calls]
                  ELSE DirsLoop(fsys, items, folderPath, depth, k + 1, all,
                                made \o sub.calls, maxFiles)

DirsLoop(fsys, items, folderPath, depth, k, files, made, maxFiles) ==
    IF k > Len(items) THEN [files |-> files, calls |-> made]
    ELSE LET item == items[k] IN
         IF SkippedAsDirectory(item.name) \/ item.statFails \/ item.kind # "dir"
         THEN DirsLoop(fsys, items, folderPath, depth, k + 1, files, made, maxFiles)
         ELSE LET sub == scanFolderRecursively(fsys, item.dir,
                                               Append(folderPath, item.name),
                                               depth + 1, maxFiles - Len(files))
                  all == files \o sub.files
              IN  IF Len(all) >= maxFiles
                  THEN [files |-> all, calls |-> made \o sub.calls]
                  ELSE DirsLoop(fsys, items, folderPath, depth, k + 1, all,
                                made \o sub.calls, maxFiles)

scanFolderRecursively(fsys, dir, folderPath, depth, maxFiles) ==
    LET this == <<[folderPath |-> folderPath, depth |-> depth, maxFiles |-> maxFiles]>>
        items == fsys.dirs[dir]
        direct == FilesLoop(items, folderPath, 1, <<>>, maxFiles)
    IN  IF depth > maxDepth \/ dir \in fsys.noAccess \/ dir \in fsys.readdirFails
        THEN [files |-> <<>>, calls |-> this]
        ELSE IF direct.stopped THEN [files |-> direct.files, calls |-> this]
        ELSE IF MayDescend(direct.files, depth, maxFiles)
        THEN DirsLoop(fsys, items, folderPath, depth, 1, direct.files, this, maxFiles)
        ELSE [files |-> direct.files, calls |-> this]

\* directory entries
File(name) == [name |-> name, kind |-> "file", statFails |-> FALSE, dir |-> 0]
Dir(name, dir) == [name |-> name, kind |-> "dir", statFails |-> FALSE, dir |-> dir]
Broken(name) == [name |-> name, kind |-> "file", statFails |-> TRUE, dir |-> 0]

EntryName ==
    [f |-> <<"f", ".", "p", "d", "f">>,
     d |-> <<"d">>,
     upper |-> <<"B", ".", "P", "D", "F">>,
     txt |-> <<"n", "o", "t", "e", "s", ".", "t", "x", "t">>,
     hidden |-> <<".", "h", ".", "p", "d", "f">>,
     tilde |-> <<"~", "t", ".", "p", "d", "f">>,
     dollar |-> <<"$", "s", ".", "p", "d", "f">>,
     backupPdf |-> <<"b", "a", "c", "k", "u", "p", ".", "p", "d", "f">>,
     docs |-> <<"d", "o", "c", "s">>,
     more |-> <<"m", "o", "r", "e">>,
     builds |-> <<"M", "y", " ", "B", "u", "i", "l", "d", "s">>,
     catalog |-> <<"C", "a", "t", "a", "l", "o", "g">>,
     git |-> <<".", "g", "i", "t">>,
     tildeDir |-> <<"~", "o", "l", "d">>,
     broken |-> <<"g", "o", "n", "e", ".", "p", "d", "f">>,
     locked |-> <<"l", "o", "c", "k", "e", "d">>,
     pdfDir |-> <<"x", ".", "p", "d", "f">>]

\* deepest chain of nested directories
MaxChain == 17

\* a chain of k nested directories d/d/.../d: a pdf in every directory, or only in
\* the innermost
Chain(k, everyLevel) ==
    [dirs |-> [i \in 1..(k + 1) |->
                  (IF i <= k THEN <<Dir(EntryName.d, i + 1)>> ELSE <<>>)
                  \o (IF everyLevel \/ i = k + 1 THEN <<File(EntryName.f)>> ELSE <<>>)],
     noAccess |-> {}, readdirFails |-> {}]

\* a directory that contains a link to itself
Cycle ==
    [dirs |-> [i \in 1..1 |-> <<Dir(EntryName.d, 1), File(EntryName.f)>>],
     noAccess |-> {}, readdirFails |-> {}]

\* a tree with hidden, temporary and denylisted names, an entry whose stat fails,
\* and directories 5 (locked) and 6 that may be unreadable
Mixed(noAccess, readdirFails) ==
    [dirs |-> [i \in 1..8 |->
        CASE i = 1 -> <<Dir(EntryName.builds, 2), File(EntryName.upper), File(EntryName.hidden), Dir(EntryName.docs, 3),
                        Broken(EntryName.broken), File(EntryName.txt), Dir(EntryName.catalog, 4),
                        Dir(EntryName.locked, 5), File(EntryName.tilde), Dir(EntryName.more, 6), Dir(EntryName.git, 7),
                        Dir(EntryName.tildeDir, 8), File(EntryName.backupPdf)>>
          [] i = 2 -> <<File(EntryName.f)>>
          [] i = 3 -> <<File(EntryName.f), File(EntryName.dollar), Dir(EntryName.pdfDir, 2)>>
          [] i = 4 -> <<File(EntryName.f)>>
          [] i = 5 -> <<File(EntryName.f)>>
          [] i = 6 -> <<File(EntryName.f), File(EntryName.upper)>>
          [] i = 7 -> <<File(EntryName.f)>>
          [] i = 8 -> <<File(EntryName.f)>>],
     noAccess |-> noAccess, readdirFails |-> readdirFails]

FileSystems ==
    {Chain(k, e) : k \in 0..MaxChain, e \in BOOLEAN}
    \cup {Cycle}
    \cup {Mixed(a, r) : a \in SUBSET {5}, r \in SUBSET {6}}

\* largest small budget
MaxBudget == 3

\* the budgets tried: small ones, and one no tree here exhausts
Budgets == 0..MaxBudget \cup {maxDepth + MaxChain}

InitScan ==
    /\ sc \in {[pc |-> "ready", fsys |-> f, maxFiles |-> n, files |-> <<>>,
                calls |-> <<>>] : f \in FileSystems, n \in Budgets}
    /\ text = NullText
    /\ fields = <<>>
    /\ pdfPath = FALSE
    /\ keys = [google |-> FALSE, openai |-> FALSE, anthropic |-> FALSE]
    /\ pc = "idle"
    /\ bestResult = NoCandidate
    /\ calls = <<>>
    /\ ocrCalls = <<>>
    /\ oc = OcrIdle
    /\ pf = PatternIdle
    /\ patternRuns = <<>>
    /\ outcome = "running"
    /\ result = NoResult
    /\ bx = BatchIdle
    /\ va = ValidateIdle
    /\ vc = EvaluateIdle

\* scanFolderRecursively(root, 0, maxFiles), as getLocalPDFs calls it (line 197)
Scan ==
    /\ sc.pc = "ready"
    /\ LET r == scanFolderRecursively(sc.fsys, 1, <<>>, 0, sc.maxFiles)
       IN  sc' = [sc EXCEPT !.pc = "done", !.files = r.files, !.calls = r.calls]
    /\ UNCHANGED <<extractVars, bx, va, vc, oc, pf>>

NextScan == Scan

SpecScan == InitScan /\ [][NextScan]_vars

\* ------------------------------------------------------------------------
\* Calls of validateCoFField: a raw value, then the value it normalized to
\* ------------------------------------------------------------------------
ValidatedFields ==
    {FieldName.pod, FieldName.POD_upper, FieldName.floor_amount_match,
     FieldName.company_name, FieldName.period, FieldName.currency, FieldName.poc,
     FieldName.remarks}

\* raw values a provider answer or a pattern can hold
RawValues ==
    {Str(<<"n", "a">>),
     Str(<<"N", "A">>),
     Str(<<"E", "m", "e", "a">>),
     Str(<<"a", "p", "a", "c">>),
     Str(<<"L", "A", "T", "A", "M">>),
     Str(<<"E", "U">>),
     Str(<<" ", "N", "A">>),
     Str(<<"$", "1", ",", "2", "5", "0", ",", "0", "0", "0">>),
     Str(<<"$", "1", "2">>),
     Str(<<"$", "5", "0">>),
     Str(<<"4", "9">>),
     Str(<<"0", "0", "5", "0">>),
     Str(<<"9", "9", "9">>),
     Str(<<"$", "1", ",", "0", "0", "0">>),
     Str(<<"a", "b", "c">>),
     Str(<<" ", " ", "a", "b", " ", " ">>),
     Str(<<" ", " ", " ">>),
     Str(<<"A", "c", "m", "e", " ", "C", "o", "r", "p">>),
     Str(<<"x", "\\", "b", "l", "t", "d", "\\", "b">>),
     Str(<<"U", "S", "D">>),
     Str(<<"u", "s", "d">>),
     Str(<<"$">>),
     Str(<<"c", "o", "n", "s", "t", "r", "u", "c", "t", "o", "r">>),
     Str(<<"3", "6", " ", "m", "o", "n", "t", "h", "s">>),
     Str(<<"1", "2", "1", " ", "m", "o", "n", "t", "h", "s">>),
     Str(<<"1", "2", "-", "2", "4">>),
     Str(<<"1">>),
     Str(<<"1", "2", "0">>),
     Str(<<"0">>),
     Str(<<"a", "@", "b", ".", "c", "o", "m">>),
     Str(<<"a", "@", "b", "\\", ".", "c", "o", "m">>),
     Str(<<"N", "/", "A">>),
     Str(<<>>),
     Str(<<"euro">>), Null, Undefined, Num(0), Num(75), Num(1250)}

InitValidate ==
    /\ va \in {[pc |-> "ready", fieldName |-> f, value |-> v,
                validation |-> Invalid(""), again |-> Invalid("")] :
                  f \in ValidatedFields, v \in RawValues}
    /\ text = NullText
    /\ fields = <<>>
    /\ pdfPath = FALSE
    /\ keys = [google |-> FALSE, openai |-> FALSE, anthropic |-> FALSE]
    /\ pc = "idle"
    /\ bestResult = NoCandidate
    /\ calls = <<>>
    /\ ocrCalls = <<>>
    /\ oc = OcrIdle
    /\ pf = PatternIdle
    /\ patternRuns = <<>>
    /\ outcome = "running"
    /\ result = NoResult
    /\ bx = BatchIdle
    /\ sc = ScanIdle
    /\ vc = EvaluateIdle

\* validateCoFField(fieldName, value)
Validate ==
    /\ va.pc = "ready"
    /\ va' = [va EXCEPT !.pc = "validated",
                        !.validation = validateCoFField(va.fieldName, va.value)]
    /\ UNCHANGED <<extractVars, bx, sc, vc, oc, pf>>

\* validateCoFField(fieldName, normalizedValue) for an accepted value
Revalidate ==
    /\ va.pc = "validated"
    /\ va.validation.valid
    /\ va' = [va EXCEPT !.pc = "revalidated",
                        !.again = validateCoFField(va.fieldName,
                                                   va.validation.normalizedValue)]
    /\ UNCHANGED <<extractVars, bx, sc, vc, oc, pf>>

NextValidate == Validate \/ Revalidate

SpecValidate == InitValidate /\ [][NextValidate]_vars

\* ------------------------------------------------------------------------
\* The search for JSON in one provider answer: the part of tryGemini, tryGPT4 and
\* tryClaude after the call (lines 203-220, 244-260, 283-299), and processAIResult
\* ------------------------------------------------------------------------
\* answers in text: prose, an object, an object inside prose, an object followed
\* by a remark with braces of its own, a brace that is never closed, and text
\* with the backslashes the adapters' pattern asks for
AnswerTexts ==
    {TextResponse(<<"w">>, NoPayload),
     TextResponse(<<"{", "j", "}">>, P_allCritical),
     TextResponse(<<"w", "{", "j", "}", "w">>, P_partial),
     TextResponse(<<"{", "j", "}", "w", "{", "w", "}">>, P_partial),
     TextResponse(<<"w", "{", "j">>, NoPayload),
     TextResponse(<<"\\", "{", "s", "\\", "}">>, NoPayload)}

InitParse ==
    /\ vc \in {[pc |-> "answered", adapter |-> a, response |-> r, fields |-> fs,
                candidate |-> NoCandidate,
                processed |-> [threw |-> FALSE,
                               result |-> AIResult(FALSE, <<>>, "", "", "")]] :
                  a \in {"gemini", "gpt4", "claude"},
                  r \in AnswerTexts,
                  fs \in FieldLists}
    /\ text = NullText
    /\ fields = <<>>
    /\ pdfPath = FALSE
    /\ keys = [google |-> FALSE, openai |-> FALSE, anthropic |-> FALSE]
    /\ pc = "idle"
    /\ bestResult = NoCandidate
    /\ calls = <<>>
    /\ ocrCalls = <<>>
    /\ oc = OcrIdle
    /\ pf = PatternIdle
    /\ patternRuns = <<>>
    /\ outcome = "running"
    /\ result = NoResult
    /\ bx = BatchIdle
    /\ sc = ScanIdle
    /\ va = ValidateIdle

\* the answer as the adapter of extractFields reads it, and as processAIResult
\* reads it for the same provider
ParseAnswer ==
    /\ vc.pc = "answered"
    /\ vc' = [vc EXCEPT
                !.pc = "parsed",
                !.candidate = CASE vc.adapter = "gemini" -> tryGemini(vc.response)
                                [] vc.adapter = "gpt4" -> tryGPT4(vc.response)
                                [] vc.adapter = "claude" -> tryClaude(vc.response),
                !.processed =
                    processAIResult(vc.response, vc.fields, DocNames[1],
                                    CASE vc.adapter = "gemini" -> MethodName("google")
                                      [] vc.adapter = "gpt4" -> MethodName("openai")
                                      [] vc.adapter = "claude" -> MethodName("anthropic"))]
    /\ UNCHANGED <<extractVars, bx, sc, va, oc, pf>>

NextParse == ParseAnswer

SpecParse == InitParse /\ [][NextParse]_vars

\* ------------------------------------------------------------------------
\* One pass of the adapter loop of extractFields (lines 454-481) over the value
\* an adapter returned: the object { success, data, method } of lines 210, 250
\* and 289, or null
\* ------------------------------------------------------------------------
\* an answer whose JSON values are not all strings: a number, an array of one
\* string, the boolean true
P_nonStrings ==
    (FieldName.floor_amount_match :> Num(1250)) @@
    (FieldName.company_name :> Str(<<"A", "c", "m", "e", " ", "C", "o", "r", "p">>)) @@
    (FieldName.opportunity_name :> Num(75)) @@
    (FieldName.pod :> [t |-> "arr", s |-> S_NA, n |-> 1]) @@
    (FieldName.remarks :> [t |-> "bool", s |-> <<"t", "r", "u", "e">>, n |-> 1])

AdapterResults ==
    {NoCandidate} \cup
    {[present |-> TRUE, data |-> d, method |-> m, criticalFieldsFound |-> 0] :
        d \in {NoPayload, P_allCritical, P_partial, P_nonStrings},
        m \in {"OpenAI GPT-4 Turbo", "Anthropic Claude 3.5"}}

\* bestResult when the pass begins: null, or an earlier candidate of Gemini
EarlierBest(fs) ==
    {NoCandidate} \cup
    {[present |-> TRUE, data |-> [n \in NameSet(fs) |-> Null],
      method |-> "Google Gemini 1.5 Pro", criticalFieldsFound |-> c] : c \in 1..2}

EvaluatedFieldLists ==
    FieldLists \cup
    {<<FieldName.floor_amount_match, FieldName.company_name, FieldName.company_name,
       FieldName.opportunity_name>>}

InitEvaluate ==
    /\ vc \in {[pc |-> "returned", result |-> r, fields |-> fs, bestResult |-> b,
                after |-> b, stop |-> FALSE] :
                  r \in AdapterResults,
                  fs \in EvaluatedFieldLists,
                  b \in UNION {EarlierBest(l) : l \in EvaluatedFieldLists}}
    /\ vc.bestResult \in EarlierBest(vc.fields)
    /\ text = NullText
    /\ fields = <<>>
    /\ pdfPath = FALSE
    /\ keys = [google |-> FALSE, openai |-> FALSE, anthropic |-> FALSE]
    /\ pc = "idle"
    /\ bestResult = NoCandidate
    /\ calls = <<>>
    /\ ocrCalls = <<>>
    /\ oc = OcrIdle
    /\ pf = PatternIdle
    /\ patternRuns = <<>>
    /\ outcome = "running"
    /\ result = NoResult
    /\ bx = BatchIdle
    /\ sc = ScanIdle
    /\ va = ValidateIdle

\* lines 454-485
ValidateCandidate ==
    /\ vc.pc = "returned"
    /\ LET ev == Evaluate(vc.result, vc.fields, vc.bestResult) IN
       vc' = [vc EXCEPT !.pc = "validated", !.after = ev.best, !.stop = ev.stop]
    /\ UNCHANGED <<extractVars, bx, sc, va, oc, pf>>

NextEvaluate == ValidateCandidate

SpecEvaluate == InitEvaluate /\ [][NextEvaluate]_vars

\* ------------------------------------------------------------------------
\* OCRService.extractTextFromPDF
\* ------------------------------------------------------------------------
\* options.maxPages || 10 (line 41): options is [given, maxPages]
DefaultMaxPages == 10

MaxPagesOf(options) ==
    IF options.given /\ options.maxPages # 0 THEN options.maxPages ELSE DefaultMaxPages

\* what rendering and recognition do with a page of the document:
\*   text, blank      the page is rendered and recognized (blank: only white space)
\*   renderError      convert rejects with an Error
\*   renderValue      convert rejects with a value that has no message property
\*   recognizeError   Tesseract.recognize rejects with an Error
\*   recognizeValue   Tesseract.recognize rejects with a value without message
PageKinds ==
    {"text", "blank", "renderError", "renderValue", "recognizeError", "recognizeValue"}

\* longest document
MaxPages == 11

\* a document: its pages, how the renderer signals a page beyond the last one (a
\* result without buffer, or the 'Requested FirstPage is greater ...' Error), and
\* whether pdf2pic.fromPath accepts it
PdfDocument(pages, endSignal, opens) ==
    [pages |-> pages, endSignal |-> endSignal, opens |-> opens]

PdfDocuments ==
    {PdfDocument([i \in 1..n |-> "text"], e, TRUE) :
        n \in 0..MaxPages, e \in {"noBuffer", "message"}}
    \cup {PdfDocument(<<a>>, "message", TRUE) : a \in PageKinds}
    \cup {PdfDocument(<<a, b>>, "message", TRUE) : a \in PageKinds, b \in PageKinds}
    \cup {PdfDocument(<<"text", "recognizeValue", "text">>, "noBuffer", TRUE),
          PdfDocument(<<"text">>, "message", FALSE)}

OcrOptions ==
    {[given |-> FALSE, maxPages |-> 0]} \cup {[given |-> TRUE, maxPages |-> n] : n \in 0..3}

\* one call of extractTextFromPDF before its first statement; requests, yielded,
\* failedPages and cleanups record what the call did
OcrRun(doc, options) ==
    [pc |-> "start", doc |-> doc, options |-> options, maxPages |-> 0,
     pageNumber |-> 0, extractedText |-> <<>>, caught |-> FALSE,
     requests |-> <<>>, yielded |-> {}, failedPages |-> {}, cleanups |-> 0,
     result |-> [success |-> FALSE, text |-> <<>>, pagesProcessed |-> 0, error |-> ""]]

\* the image file savePath/saveFilename name for a page (lines 31-33): the name holds
\* the page number and nothing of the document; of is the run that wrote it
PageImage(page, run) == [name |-> page, of |-> run]

InitOcr ==
    /\ oc \in
          {[runs |-> <<OcrRun(d, o)>>, writesImages |-> w, temp |-> {},
            overwritten |-> {}, removed |-> {}] :
              d \in PdfDocuments, o \in OcrOptions, w \in BOOLEAN}
          \cup {[runs |-> <<OcrRun(d, o), OcrRun(e, o)>>, writesImages |-> w, temp |-> {},
                 overwritten |-> {}, removed |-> {}] :
                  d \in {x \in PdfDocuments : Len(x.pages) \in 1..2 /\ x.endSignal = "message"},
                  e \in {PdfDocument(<<"text", "text">>, "noBuffer", TRUE)},
                  o \in {[given |-> FALSE, maxPages |-> 0]},
                  w \in BOOLEAN}
    /\ text = NullText
    /\ fields = <<>>
    /\ pdfPath = FALSE
    /\ keys = [google |-> FALSE, openai |-> FALSE, anthropic |-> FALSE]
    /\ pc = "idle"
    /\ bestResult = NoCandidate
    /\ calls = <<>>
    /\ ocrCalls = <<>>
    /\ patternRuns = <<>>
    /\ outcome = "running"
    /\ result = NoResult
    /\ bx = BatchIdle
    /\ sc = ScanIdle
    /\ va = ValidateIdle
    /\ vc = EvaluateIdle
    /\ pf = PatternIdle

\* the while test of line 45 after pageNumber has been set
AtLoopTest(run) ==
    [run EXCEPT !.pc = IF run.pageNumber <= run.maxPages THEN "convert" ELSE "cleanup"]

\* faulty variant: the outer catch returns without cleaning up
OuterCatch_NoCleanup(run) == [run EXCEPT !.pc = "return", !.caught = TRUE]

\* the outer catch (line 111), entered with whatever was thrown
OuterCatch(run) == [run EXCEPT !.pc = "cleanup", !.caught = TRUE]

\* the inner catch (lines 79-88): thrown is "endError" for the Error whose message
\* names the page beyond the last one, "error" for any other Error, "value" for a
\* value without message, on which pageError.message.includes throws a TypeError
InnerCatch(run, thrown) ==
    CASE thrown = "value" -> OuterCatch([run EXCEPT !.failedPages = @ \cup {run.pageNumber}])
      [] thrown = "endError" -> [run EXCEPT !.pc = "cleanup"]
      [] OTHER -> AtLoopTest([run EXCEPT !.pageNumber = @ + 1,
                                         !.failedPages = @ \cup {run.pageNumber}])

\* lines 25-45: pdf2pic.fromPath, the locals, the first loop test
OcrStart(r) ==
    /\ oc.runs[r].pc = "start"
    /\ LET run == oc.runs[r]
           entered == [run EXCEPT !.maxPages = MaxPagesOf(run.options), !.pageNumber = 1]
       IN  oc' = [oc EXCEPT !.runs[r] = IF run.doc.opens THEN AtLoopTest(entered)
                                        ELSE OuterCatch(run)]
    /\ UNCHANGED <<extractVars, bx, sc, va, vc, pf>>

\* lines 48-55 and 79-88: convert(pageNumber) and what follows its settling
ConvertPage(r) ==
    /\ oc.runs[r].pc = "convert"
    /\ LET run == [oc.runs[r] EXCEPT !.requests = Append(@, oc.runs[r].pageNumber)]
           page == run.pageNumber
           beyond == page > Len(run.doc.pages)
           kind == run.doc.pages[page]
           image == PageImage(page, r)
           sameName == {f \in oc.temp : f.name = page}
       IN  IF beyond
           THEN oc' = [oc EXCEPT !.runs[r] =
                          IF run.doc.endSignal = "noBuffer"
                          THEN [run EXCEPT !.pc = "cleanup"]
                          ELSE InnerCatch(run, "endError")]
           ELSE IF kind = "renderError"
           THEN oc' = [oc EXCEPT !.runs[r] = InnerCatch(run, "error")]
           ELSE IF kind = "renderValue"
           THEN oc' = [oc EXCEPT !.runs[r] = InnerCatch(run, "value")]
           ELSE oc' = [oc EXCEPT
                         !.runs[r] = [run EXCEPT !.pc = "recognize"],
                         !.temp = IF oc.writesImages THEN (@ \ sameName) \cup {image} ELSE @,
                         !.overwritten = IF oc.writesImages
                                         THEN @ \cup {f \in sameName : f.of # r}
                                         ELSE @]
    /\ UNCHANGED <<extractVars, bx, sc, va, vc, pf>>

\* lines 60-78 and 79-88: Tesseract.recognize on the buffer and what follows
RecognizePage(r) ==
    /\ oc.runs[r].pc = "recognize"
    /\ LET run == oc.runs[r]
           page == run.pageNumber
           kind == run.doc.pages[page]
       IN  oc' = [oc EXCEPT !.runs[r] =
                CASE kind = "text" ->
                       AtLoopTest([run EXCEPT !.extractedText = Append(@, page),
                                              !.yielded = @ \cup {page},
                                              !.pageNumber = @ + 1])
                  [] kind = "blank" -> AtLoopTest([run EXCEPT !.pageNumber = @ + 1])
                  [] kind = "recognizeError" -> InnerCatch(run, "error")
                  [] OTHER -> InnerCatch(run, "value")]
    /\ UNCHANGED <<extractVars, bx, sc, va, vc, pf>>

\* cleanupTempFiles (lines 124-135), called at line 92 or line 113: every file of the
\* directory named page*.png or page*.jpg is removed
CleanupTempFiles(r) ==
    /\ oc.runs[r].pc = "cleanup"
    /\ oc' = [oc EXCEPT
                !.runs[r] = [@ EXCEPT !.pc = "return", !.cleanups = @ + 1],
                !.temp = {},
                !.removed = @ \cup {f \in oc.temp : f.of # r /\ oc.runs[f.of].pc # "done"}]
    /\ UNCHANGED <<extractVars, bx, sc, va, vc, pf>>

\* lines 94-109 and 115-120
OcrReturn(r) ==
    /\ oc.runs[r].pc = "return"
    /\ LET run == oc.runs[r] IN
       oc' = [oc EXCEPT !.runs[r] =
                [run EXCEPT
                   !.pc = "done",
                   !.result =
                       IF run.caught
                       THEN [success |-> FALSE, text |-> <<>>, pagesProcessed |-> 0,
                             error |-> "OCR failed"]
                       ELSE IF run.extractedText # <<>>
                       THEN [success |-> TRUE, text |-> run.extractedText,
                             pagesProcessed |-> run.pageNumber - 1, error |-> ""]
                       ELSE [success |-> FALSE, text |-> <<>>, pagesProcessed |-> 0,
                             error |-> "No text could be extracted from the PDF using OCR"]]]
    /\ UNCHANGED <<extractVars, bx, sc, va, vc, pf>>

NextOcr ==
    \/ \E r \in 1..Len(oc.runs) : OcrStart(r)
    \/ \E r \in 1..Len(oc.runs) : ConvertPage(r)
    \/ \E r \in 1..Len(oc.runs) : RecognizePage(r)
    \/ \E r \in 1..Len(oc.runs) : CleanupTempFiles(r)
    \/ \E r \in 1..Len(oc.runs) : OcrReturn(r)

SpecOcr == InitOcr /\ [][NextOcr]_vars

\* ------------------------------------------------------------------------
\* AIExtractor.extractFieldWithPatterns
\* ------------------------------------------------------------------------
\* regular expressions as trees: a character set, a negated set, a sequence of parts,
\* an alternative, a greedy repetition (max -1: no upper bound)
ReSet(cs) == [t |-> "set", cs |-> cs]

ReNot(cs) == [t |-> "not", cs |-> cs]

ReSeq(parts) == [t |-> "seq", parts |-> parts]

ReAlt(a, b) == [t |-> "alt", a |-> a, b |-> b]

ReRep(a, min, max) == [t |-> "rep", a |-> a, min |-> min, max |-> max]

\* a letter under the i flag
ReCI(c) == ReSet({LowerChar(c), UpperChar(c)})

\* the positions behind the matches of re that start at position i of s, in the
\* order in which a backtracking matcher tries them
RECURSIVE ReEnds(_, _, _)
RECURSIVE ReEndsFrom(_, _, _)
RECURSIVE ReSeqEnds(_, _, _, _)
RECURSIVE ReRepEnds(_, _, _, _, _)
ReEndsFrom(re, s, starts) ==
    IF starts = <<>> THEN <<>>
    ELSE ReEnds(re, s, Head(starts)) \o ReEndsFrom(re, s, Tail(starts))

ReSeqEnds(parts, k, s, starts) ==
    IF k > Len(parts) THEN starts
    ELSE ReSeqEnds(parts, k + 1, s, ReEndsFrom(parts[k], s, starts))

RECURSIVE ReRepFrom(_, _, _, _, _)
ReRepFrom(a, s, starts, min, max) ==
    IF starts = <<>> THEN <<>>
    ELSE ReRepEnds(a, s, Head(starts), min, max) \o ReRepFrom(a, s, Tail(starts), min, max)

ReRepEnds(a, s, i, min, max) ==
    LET once == SelectSeq(ReEnds(a, s, i), LAMBDA e : e > i)
        more == IF max = 0 THEN <<>>
                ELSE ReRepFrom(a, s, once, IF min > 0 THEN min - 1 ELSE 0,
                               IF max > 0 THEN max - 1 ELSE max)
    IN  more \o (IF min = 0 THEN <<i>> ELSE <<>>)

ReEnds(re, s, i) ==
    CASE re.t = "set" -> IF i <= Len(s) /\ s[i] \in re.cs THEN <<i + 1>> ELSE <<>>
      [] re.t = "not" -> IF i <= Len(s) /\ s[i] \notin re.cs THEN <<i + 1>> ELSE <<>>
      [] re.t = "seq" -> ReSeqEnds(re.parts, 1, s, <<i>>)
      [] re.t = "alt" -> ReEnds(re.a, s, i) \o ReEnds(re.b, s, i)
      [] re.t = "rep" -> ReRepEnds(re.a, s, i, re.min, re.max)

\* String.prototype.match with a g pattern: every match from left to right, each
\* search starting behind the previous match; <<>> stands for null
RECURSIVE GlobalMatch(_, _, _)
GlobalMatch(re, s, from) ==
    LET found == {i \in from..(Len(s) + 1) : ReEnds(re, s, i) # <<>>}
        index == CHOOSE i \in found : \A k \in found : i <= k
        end == ReEnds(re, s, index)[1]
    IN  IF found = {} THEN <<>>
        ELSE <<SubSeq(s, index, end - 1)>>
             \o GlobalMatch(re, s, IF end = index THEN end + 1 ELSE end)

WhiteSpace == {" ", "\t", "\n", "\r"}

DigitSet == RangeOf(Digits)

WordSet == Letters \cup DigitSet \cup {"_"}

\* the patterns of lines 446-453 that the function uses
patterns ==
    [date |->
        ReAlt(ReSeq(<<ReRep(ReSet(DigitSet), 4, 4), ReSet({"-", "/"}),
                      ReRep(ReSet(DigitSet), 1, 2), ReSet({"-", "/"}),
                      ReRep(ReSet(DigitSet), 1, 2)>>),
              ReSeq(<<ReRep(ReSet(DigitSet), 1, 2), ReSet({"-", "/"}),
                      ReRep(ReSet(DigitSet), 1, 2), ReSet({"-", "/"}),
                      ReRep(ReSet(DigitSet), 4, 4)>>)),
     amount |->
        ReSeq(<<ReRep(ReSet({"$", "€", "£"}), 0, 1), ReRep(ReSet(WhiteSpace), 0, -1),
                ReRep(ReSet(DigitSet), 1, 3),
                ReRep(ReSeq(<<ReSet({","}), ReRep(ReSet(DigitSet), 3, 3)>>), 0, -1),
                ReRep(ReSeq(<<ReSet({"."}), ReRep(ReSet(DigitSet), 2, 2)>>), 0, 1)>>),
     email |->
        ReSeq(<<ReRep(ReSet(Letters \cup DigitSet \cup {".", "_", "%", "+", "-"}), 1, -1),
                ReSet({"@"}),
                ReRep(ReSet(Letters \cup DigitSet \cup {".", "-"}), 1, -1),
                ReSet({"."}),
                ReRep(ReSet(Letters), 2, -1)>>),
     phone |->
        ReSeq(<<ReRep(ReSeq(<<ReSet({"+"}), ReRep(ReSet(DigitSet), 1, 3),
                              ReRep(ReSet(WhiteSpace), 0, 1)>>), 0, 1),
                ReRep(ReSet({"("}), 0, 1), ReRep(ReSet(DigitSet), 3, 3),
                ReRep(ReSet({")"}), 0, 1),
                ReRep(ReSet({"-", "."} \cup WhiteSpace), 0, 1),
                ReRep(ReSet(DigitSet), 3, 3),
                ReRep(ReSet({"-", "."} \cup WhiteSpace), 0, 1),
                ReRep(ReSet(DigitSet), 4, 4)>>),
     invoice |->
        ReSeq(<<ReCI("i"), ReCI("n"), ReCI("v"),
                ReRep(ReSet({"o", "i", "c", "e", "O", "I", "C", "E"}), 0, -1),
                ReRep(ReSet(WhiteSpace), 0, -1), ReRep(ReSet({"#"}), 0, 1),
                ReRep(ReSet(WhiteSpace), 0, -1), ReRep(ReSet(WordSet), 1, -1)>>)]

\* new RegExp(fieldName, 'gi') for a name of letters, digits, blanks and underscores
NamePattern(fieldName) == ReSeq([i \in 1..Len(fieldName) |-> ReCI(fieldName[i])])

\* new RegExp(`${fieldName}[:\\s]*([^\\n\\r]{1,100})`, 'gi') (line 482)
fieldRegex(fieldName) ==
    ReSeq(<<NamePattern(fieldName), ReRep(ReSet({":"} \cup WhiteSpace), 0, -1),
            ReRep(ReNot({"\n", "\r"}), 1, 100)>>)

\* s.replace(re, '') with a g pattern: s without the matches of re
RECURSIVE RemoveAll(_, _, _)
RemoveAll(re, s, from) ==
    LET found == {i \in from..Len(s) : \E k \in 1..Len(ReEnds(re, s, i)) : ReEnds(re, s, i)[k] > i}
        index == CHOOSE i \in found : \A k \in found : i <= k
        end == ReEnds(re, s, index)[1]
    IN  IF found = {} THEN SubSeq(s, from, Len(s))
        ELSE SubSeq(s, from, index - 1) \o RemoveAll(re, s, end)

\* s.replace(/[:]\s*/, ''): s without its first colon and the white space behind it
RemoveFirstColon(s) ==
    LET re == ReSeq(<<ReSet({":"}), ReRep(ReSet(WhiteSpace), 0, -1)>>)
        found == {i \in 1..Len(s) : ReEnds(re, s, i) # <<>>}
        index == CHOOSE i \in found : \A k \in found : i <= k
    IN  IF found = {} THEN s
        ELSE SubSeq(s, 1, index - 1) \o SubSeq(s, ReEnds(re, s, index)[1], Len(s))

\* matches ? matches[0] : 'N/A'
FirstMatchOrNA(matches) ==
    IF matches = <<>> THEN Str(S_NotAvailable) ELSE Str(matches[1])

\* extractFieldWithPatterns(field, text) for a string text: the value returned, or
\* threw for the SyntaxError of line 482; matches[1] of line 478 is the second
\* match of the g pattern, undefined when there is only one
extractFieldWithPatterns(field, tx) ==
    LET fieldName == ToLowerCase(field.name)
        description == IF Falsy(field.description) THEN <<>>
                       ELSE ToLowerCase(field.description.s)
        Has(kw) == Includes(fieldName, kw) \/ Includes(description, kw)
        invoices == GlobalMatch(patterns.invoice, tx, 1)
        match == GlobalMatch(fieldRegex(fieldName), tx, 1)
    IN  IF Has(<<"d", "a", "t", "e">>)
        THEN Found(FirstMatchOrNA(GlobalMatch(patterns.date, tx, 1)))
        ELSE IF Has(<<"a", "m", "o", "u", "n", "t">>) \/ Has(<<"t", "o", "t", "a", "l">>)
        THEN Found(FirstMatchOrNA(GlobalMatch(patterns.amount, tx, 1)))
        ELSE IF Has(<<"e", "m", "a", "i", "l">>)
        THEN Found(FirstMatchOrNA(GlobalMatch(patterns.email, tx, 1)))
        ELSE IF Has(<<"p", "h", "o", "n", "e">>)
        THEN Found(FirstMatchOrNA(GlobalMatch(patterns.phone, tx, 1)))
        ELSE IF Has(<<"i", "n", "v", "o", "i", "c", "e">>)
        THEN Found(IF invoices = <<>> THEN Str(S_NotAvailable)
                   ELSE IF Len(invoices) >= 2 THEN Str(invoices[2])
                   ELSE Undefined)
        ELSE IF GenericPatternThrows(fieldName) THEN FieldThrew
        ELSE IF match # <<>>
        THEN Found(Str(Trim(RemoveFirstColon(RemoveAll(NamePattern(fieldName), match[1], 1)))))
        ELSE Found(Str(S_NotAvailable))

PatternTexts ==
    [full |-> <<"D", "a", "t", "e", ":", " ", "2", "0", "2", "4", "-", "0", "1", "-", "1", "5", "\n", "T", "o", "t", "a", "l", ":", " ", "$", "1", ",", "2", "5", "0", ".", "0", "0", "\n", "I", "n", "v", "o", "i", "c", "e", " ", "#", "A", "1", "7", "\n", "m", "a", "i", "l", " ", "a", "@", "b", ".", "c", "o", "\n", "T", "e", "l", " ", "5", "5", "5", "-", "1", "2", "3", "-", "4", "5", "6", "7", "\n", "n", "o", "t", "e", "s", ":", " ", "c", "a", "l", "l", " ", "b", "a", "c", "k">>,
     twoInvoices |-> <<"I", "n", "v", "o", "i", "c", "e", " ", "#", "A", "1", "7", " ", "a", "n", "d", " ", "i", "n", "v", "o", "i", "c", "e", " ", "#", "B", "2">>,
     twoDates |-> <<"d", "u", "e", " ", "3", "/", "4", "/", "2", "0", "2", "5", ",", " ", "w", "a", "s", " ", "2", "0", "2", "4", "-", "0", "1", "-", "1", "5">>,
     plain |-> <<"s", "e", "e", " ", "t", "h", "e", " ", "e", "n", "c", "l", "o", "s", "e", "d", " ", "l", "e", "t", "t", "e", "r">>,
     amounts |-> <<"T", "o", "t", "a", "l", " ", "1", ",", "2", "5", "0", ".", "0", "0", " ", "+", " ", "9", "9">>,
     invShort |-> <<"I", "N", "V", "-", "7", " ", "a", "m", "o", "u", "n", "t", " ", "1", "2">>,
     notesOnly |-> <<"N", "o", "t", "e", "s", ":", " ", "o", "k", "\n", "N", "O", "T", "E", "S", " ", "l", "e", "f", "t">>]

PatternFields ==
    {[name |-> <<"i", "n", "v", "o", "i", "c", "e", "_", "d", "a", "t", "e">>, description |-> Undefined],
     [name |-> <<"t", "o", "t", "a", "l">>, description |-> Undefined],
     [name |-> <<"a", "m", "o", "u", "n", "t", "_", "d", "u", "e">>, description |-> Str(<<"d", "u", "e", " ", "d", "a", "t", "e">>)],
     [name |-> <<"c", "o", "n", "t", "a", "c", "t">>, description |-> Str(<<"e", "m", "a", "i", "l", " ", "a", "d", "d", "r", "e", "s", "s">>)],
     [name |-> <<"p", "h", "o", "n", "e">>, description |-> Undefined],
     [name |-> <<"i", "n", "v", "o", "i", "c", "e", "_", "n", "u", "m", "b", "e", "r">>, description |-> Undefined],
     [name |-> <<"n", "o", "t", "e", "s">>, description |-> Undefined],
     [name |-> <<"q", "t", "y", "(">>, description |-> Undefined],
     [name |-> <<"r", "e", "f">>, description |-> Str(<<"p", "h", "o", "n", "e", " ", "o", "r", " ", "e", "m", "a", "i", "l">>)]}

InitPattern ==
    /\ pf \in {[pc |-> "call", field |-> f, text |-> PatternTexts[t],
                returned |-> Found(Null)] :
                  f \in PatternFields, t \in DOMAIN PatternTexts}
    /\ text = NullText
    /\ fields = <<>>
    /\ pdfPath = FALSE
    /\ keys = [google |-> FALSE, openai |-> FALSE, anthropic |-> FALSE]
    /\ pc = "idle"
    /\ bestResult = NoCandidate
    /\ calls = <<>>
    /\ ocrCalls = <<>>
    /\ oc = OcrIdle
    /\ patternRuns = <<>>
    /\ outcome = "running"
    /\ result = NoResult
    /\ bx = BatchIdle
    /\ sc = ScanIdle
    /\ va = ValidateIdle
    /\ vc = EvaluateIdle

\* this.extractFieldWithPatterns(field, ocrResult.text) (line 411)
ExtractField ==
    /\ pf.pc = "call"
    /\ pf' = [pf EXCEPT !.pc = "returned",
                        !.returned = extractFieldWithPatterns(pf.field, pf.text)]
    /\ UNCHANGED <<extractVars, bx, sc, va, vc, oc>>

NextPattern == ExtractField

SpecPattern == InitPattern /\ [][NextPattern]_vars

\* ------------------------------------------------------------------------
\* Properties of extractFields
\* ------------------------------------------------------------------------
\* the call went past the empty-text branch: text is a string with visible content
TextAvailable == text.t = "str" /\ ~TextFalsy(text) /\ ~TextTrimEmpty(text)

EmptyTextGiven == text.t # "obj" /\ (TextFalsy(text) \/ TextTrimEmpty(text))

AllNull(data) == \A n \in DOMAIN data : data[n] = Null

\* C1: every returned result's data has exactly the requested field names as keys,
\* and a field without an accepted value is present with the value null
C1_DataOneKeyPerField ==
    outcome = "returned" =>
        /\ DOMAIN result.data = NameSet(fields)
        /\ \A n \in NameSet(fields) : result.data[n].t # "undef"

\* a returned pattern-fallback result holding a found field and a null field
C1_Witness ==
    /\ outcome = "returned"
    /\ result.method = "OCR Fallback"
    /\ \E n \in DOMAIN result.data : result.data[n] = Null
    /\ \E n \in DOMAIN result.data : result.data[n] # Null

\* the response text is one JSON object
IsJsonObjectText(response) == response.kind = "text" /\ JsonParses(response.content)

\* the object of the response gives every critical field a value the validator accepts
AllCriticalValid(response) ==
    /\ IsJsonObjectText(response)
    /\ \A f \in criticalFields : validateCoFField(f, Get(response.payload, f)).valid

\* C2: when the first adapter (Gemini) returns all critical fields valid, the
\* adapters after it are never invoked
C2_EarlyStop ==
    ( /\ criticalFields \subseteq NameSet(fields)
      /\ keys.google /\ keys.openai /\ keys.anthropic
      /\ Len(calls) >= 1
      /\ calls[1].adapter = "gemini"
      /\ AllCriticalValid(calls[1].response) )
    => Len(calls) = 1

\* the response holds a JSON object somewhere in its text
ContainsJsonObject(response) ==
    /\ response.kind = "text"
    /\ \E i \in 1..(Len(response.content) - 2) :
          SubSeq(response.content, i, i + 2) = <<"{", "j", "}">>

\* every invoked adapter failed: call error or no parseable object in the answer
\* (an unavailable adapter issues no call)
AllAdaptersFailed == \A i \in 1..Len(calls) : ~ContainsJsonObject(calls[i].response)

SearchLines(tx) ==
    IF extractCustomerDetailsSection(tx) # <<>> THEN extractCustomerDetailsSection(tx)
    ELSE tx.lines

SomeFieldMatchesPattern ==
    \E i \in 1..Len(fields) : PatternValue(fields[i], SearchLines(text)).value # Null

\* C3: when every adapter fails and text is available, a field that matches a
\* pattern makes the result the pattern fallback's, with success = true
C3_FallbackWhenAllFail ==
    (outcome = "returned" /\ TextAvailable /\ AllAdaptersFailed /\ SomeFieldMatchesPattern)
    => (result.method = "OCR Fallback" /\ result.success)

\* C8: success is true iff at least one value of data is non-null
C8_SuccessIffNonNull ==
    outcome = "returned" => (result.success <=> ~AllNull(result.data))

\* a returned result with success = true and a non-null value
C8_Witness ==
    /\ outcome = "returned"
    /\ result.success
    /\ \E n \in DOMAIN result.data : result.data[n] # Null

CaughtAtTopLevel == result.method = "Advanced CoF Extraction (Error)"

\* C9: extractFields always returns; an exception reaching its catch block gives
\* success = false, an error message and a complete all-null field map
C9_NeverThrows ==
    /\ outcome # "thrown"
    /\ pc = "done" => outcome = "returned"
    /\ (outcome = "returned" /\ CaughtAtTopLevel) =>
          /\ ~result.success
          /\ result.error # ""
          /\ DOMAIN result.data = NameSet(fields)
          /\ AllNull(result.data)

\* the catch block has produced the result of a call
C9_Witness == outcome = "returned" /\ CaughtAtTopLevel /\ fields # <<>>

IsEmptyResult(r) == ~r.success /\ AllNull(r.data) /\ r.method = "Advanced CoF Extraction"

\* C10: with empty text and a document path, OCR of the document is invoked before
\* anything else, and the empty result is returned only if that OCR failed
C10_OcrFirstOnEmptyText ==
    (outcome = "returned" /\ EmptyTextGiven /\ pdfPath)
    => /\ Len(ocrCalls) >= 1
       /\ IsEmptyResult(result) => ~ocrCalls[1].success

\* ------------------------------------------------------------------------
\* Properties of batchExtract
\* ------------------------------------------------------------------------
\* C4: batchExtract returns one result per document, in input order; a document whose
\* extraction throws yields success = false with an error message, and the documents
\* after it are still processed
C4_BatchIsolation ==
    /\ Len(bx.results) = bx.i - 1
    /\ bx.pc = "done" => Len(bx.results) = Len(bx.documents)
    /\ \A k \in 1..Len(bx.results) :
          /\ bx.results[k].fileName = bx.documents[k].fileName
          /\ k \in bx.threwAt => (~bx.results[k].success /\ bx.results[k].error # "")

\* a finished batch whose first document threw and whose last document succeeded
C4_Witness ==
    /\ bx.pc = "done"
    /\ Len(bx.documents) >= 2
    /\ 1 \in bx.threwAt
    /\ bx.results[Len(bx.documents)].success

\* ------------------------------------------------------------------------
\* Properties of scanFolderRecursively
\* ------------------------------------------------------------------------
\* C5: for every tree and every budget N >= 0 the scan returns at most N paths
C5_AtMostBudget ==
    sc.pc = "done" => Len(sc.files) <= sc.maxFiles

\* C6: no call of scanFolderRecursively is made with a depth above 15, and no returned
\* file lies in a directory more than 15 levels below the root
C6_DepthBound ==
    sc.pc = "done" =>
        /\ \A k \in 1..Len(sc.calls) : sc.calls[k].depth <= maxDepth
        /\ \A k \in 1..Len(sc.files) : Len(sc.files[k]) - 1 <= maxDepth

\* a tree deeper than 15 levels was scanned down to level 15 and a file of that level
\* was returned
C6_Witness ==
    /\ sc.pc = "done"
    /\ Len(sc.fsys.dirs) > maxDepth + 1
    /\ \E k \in 1..Len(sc.calls) : sc.calls[k].depth = maxDepth
    /\ \E k \in 1..Len(sc.files) : Len(sc.files[k]) - 1 = maxDepth

\* the directories a returned path passes through below the root
DirectoriesOf(filePath) == {filePath[i] : i \in 1..(Len(filePath) - 1)}

\* C7: no returned path passes, below the root, through a directory whose name
\* contains an entry of the denylist, compared case-insensitively
C7_NoDenylistedDirectory ==
    sc.pc = "done" =>
        \A k \in 1..Len(sc.files) : \A d \in DirectoriesOf(sc.files[k]) : ~InSkipDirs(d)

\* the root lists directories named "My Builds" and "Catalog" next to a directory that
\* is scanned, and files come back from the scanned one
C7_Witness ==
    /\ sc.pc = "done"
    /\ \E i \in 1..Len(sc.fsys.dirs[1]) :
          sc.fsys.dirs[1][i].kind = "dir" /\ sc.fsys.dirs[1][i].name = EntryName.builds
    /\ \E k \in 1..Len(sc.files) : Len(sc.files[k]) = 2 /\ sc.files[k][1] = EntryName.docs

\* ------------------------------------------------------------------------
\* Properties of validateCoFField
\* ------------------------------------------------------------------------
LowerRegionCodes ==
    {<<"n", "a">>, <<"e", "m", "e", "a">>, <<"a", "p", "a", "c">>,
     <<"l", "a", "t", "a", "m">>}

IsPodCall == ToLowerCase(va.fieldName) = FieldName.pod /\ va.value.t = "str"

\* C15: for the region-code field a string is accepted exactly when, ignoring case,
\* it is one of NA, EMEA, APAC, LATAM; the normalized value is the upper-case code and
\* the confidence is high; 'na' gives 'NA' and 'EU' is rejected
C15_RegionCodes ==
    (va.pc # "ready" /\ IsPodCall) =>
        /\ va.validation.valid <=> ToLowerCase(va.value.s) \in LowerRegionCodes
        /\ va.validation.valid =>
              /\ va.validation.confidence = "high"
              /\ va.validation.normalizedValue.t = "str"
              /\ ToLowerCase(va.validation.normalizedValue.s) = ToLowerCase(va.value.s)
              /\ \A i \in 1..Len(va.validation.normalizedValue.s) :
                    va.validation.normalizedValue.s[i] \in RangeOf(UpperLetters)
        /\ va.value.s = <<"n", "a">> => va.validation.normalizedValue = Str(S_NA)
        /\ va.value.s = <<"E", "U">> => ~va.validation.valid

\* the lower-case input 'na' was validated for the region-code field and accepted
C15_Witness ==
    /\ va.pc = "validated"
    /\ IsPodCall
    /\ va.value.s = <<"n", "a">>
    /\ va.validation.valid

IsFloorCall ==
    /\ ToLowerCase(va.fieldName) = FieldName.floor_amount_match
    /\ va.value.t \in {"str", "num"}
    /\ va.value.s # S_NotAvailable

\* the digits of a string, most significant first, as a number (0 for no digit)
RECURSIVE AmountOf(_)
AmountOf(s) ==
    IF s = <<>> THEN 0
    ELSE IF s[Len(s)] \in RangeOf(Digits)
    THEN 10 * AmountOf(SubSeq(s, 1, Len(s) - 1)) + (IndexIn(s[Len(s)], Digits) - 1)
    ELSE AmountOf(SubSeq(s, 1, Len(s) - 1))

OnlyDigitsOf(s, d) ==
    /\ \A i \in 1..Len(d) : d[i] \in RangeOf(Digits)
    /\ Len(d) = Cardinality({i \in 1..Len(s) : s[i] \in RangeOf(Digits)})

\* C16: the floor amount is accepted exactly when the number its digits spell is at
\* least 50; the normalized value is the digit string, the confidence high from 1000
\* on and medium below; '$1,250,000' gives '1250000' with high and '$12' is rejected
C16_FloorAmount ==
    (va.pc # "ready" /\ IsFloorCall) =>
        /\ va.validation.valid <=> AmountOf(va.value.s) >= 50
        /\ va.validation.valid =>
              /\ OnlyDigitsOf(va.value.s, va.validation.normalizedValue.s)
              /\ AmountOf(va.validation.normalizedValue.s) = AmountOf(va.value.s)
              /\ va.validation.confidence =
                    (IF AmountOf(va.value.s) >= 1000 THEN "high" ELSE "medium")
        /\ va.value.s = <<"$", "1", ",", "2", "5", "0", ",", "0", "0", "0">> =>
              /\ va.validation.normalizedValue = Str(<<"1", "2", "5", "0", "0", "0", "0">>)
              /\ va.validation.confidence = "high"
        /\ va.value.s = <<"$", "1", "2">> => ~va.validation.valid

\* '$1,250,000' was validated as floor amount and accepted
C16_Witness ==
    /\ va.pc = "validated"
    /\ IsFloorCall
    /\ va.value.s = <<"$", "1", ",", "2", "5", "0", ",", "0", "0", "0">>
    /\ va.validation.valid

\* C17: for every field and every accepted raw value, validating the normalized value
\* again is accepted and returns the same normalized value
C17_Idempotent ==
    va.pc = "revalidated" =>
        /\ va.again.valid
        /\ va.again.normalizedValue = va.validation.normalizedValue

IsPeriodCall ==
    /\ ToLowerCase(va.fieldName) = FieldName.period
    /\ va.value.t \in {"str", "num"}

\* the number a period value is read as when only its leading digits are parsed
LeadingPeriod == ParseIntLeading(va.value.s)

\* C38: for the period field the leading digits of the value are parsed; the value
\* is accepted exactly when that number lies in 1..120, and then the normalized value
\* is that number and the confidence is high
C38_PeriodLeadingDigits ==
    (va.pc # "ready" /\ IsPeriodCall) =>
        /\ va.validation.valid <=>
              (LeadingPeriod # NaN /\ LeadingPeriod >= 1 /\ LeadingPeriod <= 120)
        /\ va.validation.valid =>
              /\ va.validation.confidence = "high"
              /\ va.validation.normalizedValue = Str(NumToString(LeadingPeriod))

IsCurrencyCall ==
    /\ ToLowerCase(va.fieldName) = FieldName.currency
    /\ va.value.t = "str"

\* C39: for the currency field a value is accepted exactly when it is one of the six
\* codes in any letter case or one of the four symbols; an accepted value is
\* normalized to one of the six codes
C39_CurrencyAllowList ==
    (va.pc # "ready" /\ IsCurrencyCall) =>
        /\ va.validation.valid <=>
              \/ ToUpperCase(va.value.s) \in CurrencyCodes
              \/ va.value.s \in DOMAIN symbolMap
        /\ va.validation.valid =>
              /\ va.validation.normalizedValue.t = "str"
              /\ va.validation.normalizedValue.s \in CurrencyCodes

\* ------------------------------------------------------------------------
\* Properties of the adapter loops
\* ------------------------------------------------------------------------
AdapterOrder == <<"gemini", "gpt4", "claude">>

ConfiguredAdapters ==
    {a \in {"gemini", "gpt4", "claude"} :
        \/ a = "gemini" /\ keys.google
        \/ a = "gpt4" /\ keys.openai
        \/ a = "claude" /\ keys.anthropic}

CalledAdapters == {calls[k].adapter : k \in 1..Len(calls)}

\* the call ended in an error or in an answer without usable JSON
CallFailed(call) == ~tryAdapter(call.adapter, call.response).present

PastAdapterLoop == pc \in {"fallback", "done"} /\ TextAvailable

\* the configured services of extractDataFromText, in the order of aiMethods
ConfiguredServices(ks) ==
    SelectSeq(aiMethods, LAMBDA sv : ks[sv])

\* the position of a service in a sequence of services (0 when absent)
PositionIn(sv, seq) ==
    IF \E k \in 1..Len(seq) : seq[k] = sv
    THEN CHOOSE k \in 1..Len(seq) : seq[k] = sv
    ELSE 0

LastDocument == bx.i - 1

\* the service whose answer became the last document's result ("" when none did)
AnsweringService ==
    IF \E sv \in {"anthropic", "openai", "google"} :
          bx.results[LastDocument].method = MethodName(sv)
    THEN CHOOSE sv \in {"anthropic", "openai", "google"} :
          bx.results[LastDocument].method = MethodName(sv)
    ELSE ""

\* C11: an adapter that fails (error, no JSON, malformed JSON) is not fatal and adds no
\* candidate, and the next adapter in priority order is tried: in extractFields every
\* configured adapter is called when the ones before it failed, and in
\* extractDataFromText the services called are the configured ones up to the first
\* that answers, all of them when none answers
C11_AdapterFailureNotFatal ==
    /\ outcome # "thrown"
    /\ (pc # "idle" /\ \A k \in 1..Len(calls) : CallFailed(calls[k])) =>
          /\ ~bestResult.present \/ bestResult.method = "OCR Fallback"
          /\ PastAdapterLoop => CalledAdapters = ConfiguredAdapters
    /\ (bx.pc # "idle" /\ LastDocument >= 1) =>
          LET configured == ConfiguredServices(bx.keys) IN
          IF AnsweringService # ""
          THEN bx.called = SubSeq(configured, 1, PositionIn(AnsweringService, configured))
          ELSE bx.called = configured

\* extractFields returned after a first adapter that ended in an error and a second
\* adapter that was still called
C11_Witness ==
    /\ outcome = "returned"
    /\ Len(calls) >= 2
    /\ calls[1].response.kind = "error"

NoCredential(ks) == ~ks.google /\ ~ks.openai /\ ~ks.anthropic

NotAvailableMessage ==
    "AI extraction not available - no valid API keys configured and no PDF path for OCR."

\* C12 (as amended): without any valid credential no provider is called; extractFields
\* still returns a result, and extractDataFromText returns a result when the
\* document has a pdfPath and throws its "not available" error exactly when it has none
C12_NoCredential ==
    /\ (pc # "idle" /\ NoCredential(keys)) =>
          /\ outcome # "thrown"
          /\ calls = <<>>
          /\ pc = "done" => outcome = "returned"
    /\ (bx.pc # "idle" /\ NoCredential(bx.keys)) =>
          /\ bx.called = <<>>
          /\ \A k \in 1..Len(bx.results) :
                /\ k \in bx.threwAt <=> ~bx.documents[k].pdfPath
                /\ k \in bx.threwAt => bx.results[k].error = NotAvailableMessage

\* C12 (as stated): without any valid credential neither entry point ever throws
C12_NoCredentialNeverThrows ==
    /\ (pc # "idle" /\ NoCredential(keys)) => outcome # "thrown"
    /\ (bx.pc # "idle" /\ NoCredential(bx.keys)) => bx.threwAt = {}

\* a batch without credentials in which a document with a pdfPath got its result from
\* extractDataFromText and a document without one made it throw
C12_Witness ==
    /\ bx.pc = "done"
    /\ NoCredential(bx.keys)
    /\ \E k \in 1..Len(bx.results) : bx.documents[k].pdfPath /\ k \notin bx.threwAt
    /\ \E k \in 1..Len(bx.results) : ~bx.documents[k].pdfPath /\ k \in bx.threwAt

\* ------------------------------------------------------------------------
\* Properties of failed results and of extractDataFromText
\* ------------------------------------------------------------------------
FailureIsComplete(r, fs) ==
    /\ DOMAIN r.data = NameSet(fs)
    /\ AllNull(r.data)
    /\ r.error # ""

\* C13: every result with success = false, from extractFields or from the batch of
\* extractDataFromText calls, holds one entry per requested field, all null, and a
\* non-empty error text
C13_FailureCompleteNullMap ==
    /\ (outcome = "returned" /\ ~result.success) => FailureIsComplete(result, fields)
    /\ bx.pc # "idle" =>
          \A k \in 1..Len(bx.results) :
              ~bx.results[k].success => FailureIsComplete(bx.results[k], bx.fields)

AllFailedMessage ==
    "All AI extraction methods failed and no PDF path available for OCR fallback"

\* C14: extractDataFromText throws only for a document without pdfPath, with one of
\* its two messages; whenever OCR is attempted, even if OCR fails, it returns a result
C14_ThrowsOnlyWithoutPdfPath ==
    bx.pc # "idle" =>
        /\ \A k \in 1..Len(bx.results) :
              k \in bx.threwAt =>
                  /\ ~bx.documents[k].pdfPath
                  /\ bx.results[k].error \in {NotAvailableMessage, AllFailedMessage}
        /\ \A k \in 1..Len(bx.results) :
              bx.documents[k].pdfPath => k \notin bx.threwAt
        /\ (LastDocument >= 1 /\ bx.ocr # <<>>) =>
              /\ LastDocument \notin bx.threwAt
              /\ bx.results[LastDocument].method = "OCR"

\* every configured provider failed for a document with a pdfPath, OCR failed too,
\* and extractDataFromText returned a failed result instead of throwing
C14_Witness ==
    /\ bx.pc # "idle"
    /\ LastDocument >= 1
    /\ bx.called # <<>>
    /\ bx.ocr # <<>>
    /\ ~bx.ocr[1].success
    /\ LastDocument \notin bx.threwAt
    /\ ~bx.results[LastDocument].success

\* ------------------------------------------------------------------------
\* Properties of the order of adapters and of the retained candidate
\* ------------------------------------------------------------------------
Priority(adapter) == PositionIn(adapter, AdapterOrder)

AdapterMethod(adapter) ==
    CASE adapter = "gemini" -> "Google Gemini 1.5 Pro"
      [] adapter = "gpt4" -> "OpenAI GPT-4 Turbo"
      [] adapter = "claude" -> "Anthropic Claude 3.5"

\* bestResult as the loop leaves it after the first k calls have completed and
\* their candidates have been validated
RECURSIVE BestAfter(_)
BestAfter(k) ==
    IF k = 0 THEN NoCandidate
    ELSE Evaluate(tryAdapter(AdapterMethod(calls[k].adapter), calls[k].response), fields,
                  BestAfter(k - 1)).best

\* C18: adapters are called one after the other in the order Gemini, GPT-4, Claude,
\* each at most once, and whenever the next adapter can be started every earlier call
\* has completed and its candidate has been validated into bestResult
C18_SequentialPriorityOrder ==
    /\ \A i, j \in 1..Len(calls) :
          i < j => Priority(calls[i].adapter) < Priority(calls[j].adapter)
    /\ pc = "gemini" => calls = <<>>
    /\ pc = "gpt4" => CalledAdapters \subseteq {"gemini"}
    /\ pc = "claude" => CalledAdapters \subseteq {"gemini", "gpt4"}
    /\ pc \in {"gemini", "gpt4", "claude", "fallback"} =>
          bestResult = BestAfter(Len(calls))

\* all three adapters were called, in priority order
C18_Witness ==
    /\ Len(calls) = 3
    /\ calls[1].adapter = "gemini"
    /\ calls[2].adapter = "gpt4"
    /\ calls[3].adapter = "claude"

\* how many critical fields of the request the object in a provider's answer fills
\* with a valid value
CriticalValidIn(response) ==
    Cardinality({i \in 1..Len(fields) :
        /\ ToLowerCase(fields[i]) \in criticalFields
        /\ validateCoFField(fields[i], Get(response.payload, fields[i])).valid})

\* the calls answered with an object whose values the validator can examine
AnsweredWithObject ==
    {k \in 1..Len(calls) :
        /\ ContainsJsonObject(calls[k].response)
        /\ \A i \in 1..Len(fields) :
              ~validateCoFField(fields[i], Get(calls[k].response.payload, fields[i])).threw}

C20_PatternExtractorRuns ==
    ( /\ outcome = "returned"
      /\ TextAvailable
      /\ ~BestAfter(Len(calls)).present \/ BestAfter(Len(calls)).criticalFieldsFound < 2 )
    => patternRuns = <<text>>

\* ------------------------------------------------------------------------
\* Properties of the counted critical fields
\* ------------------------------------------------------------------------
\* the candidate of the k-th call as the loop validates it on its own
\* (NoCandidate when the call yields none or its validation is abandoned)
CandidateOf(k) ==
    Evaluate(tryAdapter(AdapterMethod(calls[k].adapter), calls[k].response), fields,
             NoCandidate).best

\* C21: a returned result whose method is the pattern fallback has
\* criticalFieldsFound = 0, was produced by the fallback after the adapter loop, and
\* no candidate of the run had 2 or more valid critical fields
C21_PatternFallbackZero ==
    (outcome = "returned" /\ result.method = "OCR Fallback") =>
        /\ result.criticalFieldsFound = 0
        /\ TextAvailable /\ patternRuns = <<text>>
        /\ \A k \in 1..Len(calls) : CandidateOf(k).criticalFieldsFound < 2
        /\ ~BestAfter(Len(calls)).present \/ BestAfter(Len(calls)).criticalFieldsFound < 2

\* the pattern fallback gave the result of a run in which two adapters had answered
C21_Witness ==
    /\ outcome = "returned"
    /\ result.method = "OCR Fallback"
    /\ result.extractedFields >= 1
    /\ Len(calls) >= 2
    /\ \E k \in 1..Len(calls) : ContainsJsonObject(calls[k].response)

\* the pass kept the adapter's candidate as bestResult
CandidateKept ==
    /\ vc.pc = "validated"
    /\ vc.result.present
    /\ vc.after.present
    /\ vc.after.method = vc.result.method

\* the critical fields the request names whose value in the candidate is valid
ValidCritical ==
    {f \in criticalFields :
        \E i \in 1..Len(vc.fields) :
            /\ ToLowerCase(vc.fields[i]) = f
            /\ validateCoFField(vc.fields[i], Get(vc.result.data, vc.fields[i])).valid}

StoredFor(n) == Accepted(n, Get(vc.result.data, n))

C24_EventuallyReturns == <>(pc = "done" \/ bx.pc = "done")

\* ------------------------------------------------------------------------
\* Properties of the JSON found in a provider's answer
\* ------------------------------------------------------------------------
\* the index at which the brace opened before position j is closed, depth braces
\* being open at j (0 when it never is)
RECURSIVE CloseOf(_, _, _)
CloseOf(content, j, depth) ==
    IF j > Len(content) THEN 0
    ELSE IF content[j] = "{" THEN CloseOf(content, j + 1, depth + 1)
    ELSE IF content[j] = "}"
    THEN IF depth = 1 THEN j ELSE CloseOf(content, j + 1, depth - 1)
    ELSE CloseOf(content, j + 1, depth)

\* the first balanced {...} span of a text (the empty sequence when there is none)
FirstBalancedSpan(content) ==
    LET opens == {i \in 1..Len(content) : content[i] = "{"} IN
    IF opens = {} THEN <<>>
    ELSE LET first == CHOOSE i \in opens : \A k \in opens : i <= k
             close == CloseOf(content, first + 1, 1)
         IN  IF close = 0 THEN <<>> ELSE SubSeq(content, first, close)

\* C25: when the answer holds a first balanced {...} span that parses, the
\* candidate's field map is the parsed object, whatever text or braces surround
\* the span; otherwise the adapter yields no candidate
C25_FirstBalancedSpan ==
    vc.pc = "parsed" =>
        LET span == FirstBalancedSpan(vc.response.content) IN
        IF span # <<>> /\ JsonParses(span)
        THEN /\ vc.candidate.present
             /\ vc.candidate.data = JsonParse(span, vc.response.payload)
             /\ ~vc.processed.threw
             /\ vc.processed.result.success
        ELSE /\ ~vc.candidate.present
             /\ vc.processed.threw

\* ------------------------------------------------------------------------
\* Further properties of scanFolderRecursively
\* ------------------------------------------------------------------------
\* the name starts with a dot, a dollar sign or a tilde
HiddenOrSystemName(item) ==
    StartsWith(item, <<".">>) \/ StartsWith(item, <<"$">>) \/ StartsWith(item, <<"~">>)

\* C26: no returned path contains, below the root, a file name or a directory name
\* that starts with a dot, a dollar sign or a tilde
C26_NoHiddenOrSystemName ==
    sc.pc = "done" =>
        \A k \in 1..Len(sc.files) : \A i \in 1..Len(sc.files[k]) :
            ~HiddenOrSystemName(sc.files[k][i])

\* the directory of fsys that folderPath names, followed from directory dir
RECURSIVE DirectoryAt(_, _, _, _)
DirectoryAt(fsys, dir, folderPath, k) ==
    IF k > Len(folderPath) THEN dir
    ELSE LET items == fsys.dirs[dir]
             i == CHOOSE j \in 1..Len(items) :
                      items[j].kind = "dir" /\ items[j].name = folderPath[k]
         IN  DirectoryAt(fsys, items[i].dir, folderPath, k + 1)

\* the calls that listed their directory: the depth check, access and readdir passed
ListedCalls ==
    {k \in 1..Len(sc.calls) :
        LET dir == DirectoryAt(sc.fsys, 1, sc.calls[k].folderPath, 1)
        IN  dir \notin sc.fsys.noAccess /\ dir \notin sc.fsys.readdirFails}

\* the paths of the direct matching files of the directory folderPath names: regular
\* files named *.pdf, readable by stat and not hidden
DirectPdfs(folderPath) ==
    LET items == sc.fsys.dirs[DirectoryAt(sc.fsys, 1, folderPath, 1)]
    IN  {Append(folderPath, items[i].name) :
            i \in {j \in 1..Len(items) :
                      /\ items[j].kind = "file" /\ ~items[j].statFails
                      /\ IsPdf(items[j].name)
                      /\ ~HiddenOrSystemName(items[j].name)}}

\* those of all listed directories whose own name contains a denylist word
DenylistNamedPdfs ==
    {f \in UNION {DirectPdfs(sc.calls[k].folderPath) : k \in ListedCalls} :
        InSkipDirs(f[Len(f)])}

\* C27: the denylist is consulted for directories only: a pdf file of a visited
\* directory whose own name contains a denylist word is returned, unless the budget
\* was used up
C27_DenylistNotForFiles ==
    sc.pc = "done" =>
        \/ Len(sc.files) >= sc.maxFiles
        \/ \A f \in DenylistNamedPdfs : \E k \in 1..Len(sc.files) : sc.files[k] = f

\* backup.pdf of the root is returned by a scan that did not use up its budget and
\* that left the denylisted directory "My Builds" of the same listing aside
C27_Witness ==
    /\ sc.pc = "done"
    /\ Len(sc.files) < sc.maxFiles
    /\ \E k \in 1..Len(sc.files) : sc.files[k] = <<EntryName.backupPdf>>
    /\ \E i \in 1..Len(sc.fsys.dirs[1]) :
          sc.fsys.dirs[1][i].kind = "dir" /\ sc.fsys.dirs[1][i].name = EntryName.builds
    /\ \A k \in 1..Len(sc.files) : sc.files[k][1] # EntryName.builds

\* filePath lies in the directory folderPath names, or below it
Below(filePath, folderPath) ==
    /\ Len(filePath) > Len(folderPath)
    /\ SubSeq(filePath, 1, Len(folderPath)) = folderPath

\* C28: for every visited directory, its direct matching files that are returned come
\* before every returned file of its subdirectories, and when a file of one of its
\* subdirectories is returned, all its direct matching files are
C28_DirectFilesFirst ==
    sc.pc = "done" =>
        \A c \in ListedCalls :
            LET folderPath == sc.calls[c].folderPath
                direct == {k \in 1..Len(sc.files) :
                              /\ Below(sc.files[k], folderPath)
                              /\ Len(sc.files[k]) = Len(folderPath) + 1}
                deeper == {k \in 1..Len(sc.files) :
                              /\ Below(sc.files[k], folderPath)
                              /\ Len(sc.files[k]) > Len(folderPath) + 1}
            IN  /\ \A i \in direct : \A j \in deeper : i < j
                /\ deeper # {} =>
                      DirectPdfs(folderPath) = {sc.files[k] : k \in direct}

\* the budget ran out in a subdirectory of the root: both direct files of the root
\* are returned, followed by a file of a subdirectory, and other subdirectories with
\* files were left out
C28_Witness ==
    /\ sc.pc = "done"
    /\ Len(sc.files) = sc.maxFiles
    /\ Len(sc.files) = 3
    /\ Len(sc.files[1]) = 1 /\ Len(sc.files[2]) = 1 /\ Len(sc.files[3]) = 2
    /\ \E i \in 1..Len(sc.fsys.dirs[1]) :
          /\ sc.fsys.dirs[1][i].kind = "dir"
          /\ sc.fsys.dirs[1][i].name = EntryName.more
          /\ \A k \in 1..Len(sc.files) : sc.files[k][1] # EntryName.more

\* the set of returned paths
ReturnedPaths == {sc.files[k] : k \in 1..Len(sc.files)}

\* the entries of the directory folderPath names that the directories loop descends
\* into: directories readable by stat whose name is not skipped
Descended(folderPath) ==
    LET items == sc.fsys.dirs[DirectoryAt(sc.fsys, 1, folderPath, 1)]
    IN  {Append(folderPath, items[i].name) :
            i \in {j \in 1..Len(items) :
                      /\ items[j].kind = "dir" /\ ~items[j].statFails
                      /\ ~SkippedAsDirectory(items[j].name)}}

\* C29: the scan returns whatever fails: next to an entry whose stat fails the other
\* entries of the listing are still examined, a directory that cannot be accessed or
\* listed contributes no file, and the directories next to it are still walked
C29_FailuresSkipped ==
    (sc.pc = "done" /\ Len(sc.files) < sc.maxFiles) =>
        /\ \A c \in ListedCalls :
              /\ DirectPdfs(sc.calls[c].folderPath) \subseteq ReturnedPaths
              /\ sc.calls[c].depth < maxDepth =>
                    \A d \in Descended(sc.calls[c].folderPath) :
                        \E k \in 1..Len(sc.calls) : sc.calls[k].folderPath = d
        /\ \A c \in (1..Len(sc.calls)) \ ListedCalls :
              \A f \in ReturnedPaths : ~Below(f, sc.calls[c].folderPath)

\* the root lists an entry whose stat fails, a directory without read access and one
\* whose listing fails; the scan returned the file listed after the failing entry and
\* the file of the directory listed after the two unreadable ones, and nothing from
\* these two
C29_Witness ==
    /\ sc.pc = "done"
    /\ sc.fsys.noAccess # {} /\ sc.fsys.readdirFails # {}
    /\ \E i \in 1..Len(sc.fsys.dirs[1]) : sc.fsys.dirs[1][i].statFails
    /\ \E k \in 1..Len(sc.calls) : sc.calls[k].folderPath = <<EntryName.locked>>
    /\ \E k \in 1..Len(sc.calls) : sc.calls[k].folderPath = <<EntryName.more>>
    /\ <<EntryName.backupPdf>> \in ReturnedPaths
    /\ <<EntryName.tildeDir, EntryName.f>> \in ReturnedPaths
    /\ \A f \in ReturnedPaths : f[1] \notin {EntryName.locked, EntryName.more}

\* C30: the scan ends on every tree, also on one with a link back to itself: the first
\* call has depth 0, every other call is made by a call one level higher with a
\* depth one larger, no call is deeper than 15, and no path is walked twice
C30_DepthGrowsToBound ==
    sc.pc = "done" =>
        /\ Len(sc.calls) >= 1
        /\ sc.calls[1].folderPath = <<>> /\ sc.calls[1].depth = 0
        /\ \A k \in 2..Len(sc.calls) :
              \E j \in 1..(k - 1) :
                  /\ sc.calls[k].folderPath # <<>>
                  /\ sc.calls[j].folderPath =
                         SubSeq(sc.calls[k].folderPath, 1, Len(sc.calls[k].folderPath) - 1)
                  /\ sc.calls[k].depth = sc.calls[j].depth + 1
        /\ \A k \in 1..Len(sc.calls) : sc.calls[k].depth <= maxDepth
        /\ \A j, k \in 1..Len(sc.calls) :
              sc.calls[j].folderPath = sc.calls[k].folderPath => j = k

\* the scan of a directory that links to itself ended after following the link down
\* to depth 15, with budget to spare
C30_Witness ==
    /\ sc.pc = "done"
    /\ Len(sc.fsys.dirs) = 1
    /\ \E i \in 1..Len(sc.fsys.dirs[1]) :
          sc.fsys.dirs[1][i].kind = "dir" /\ sc.fsys.dirs[1][i].dir = 1
    /\ Len(sc.calls) = maxDepth + 1
    /\ sc.calls[Len(sc.calls)].depth = maxDepth
    /\ Len(sc.files) < sc.maxFiles

\* ------------------------------------------------------------------------
\* Properties of extractTextFromPDF
\* ------------------------------------------------------------------------
\* the page limit the caller asked for: options.maxPages, 10 when none is given
RequestedLimit(run) ==
    IF run.options.given THEN run.options.maxPages ELSE DefaultMaxPages

\* C31: the pages are requested in increasing order from page 1, at most maxPages
\* (10 when not given) render requests are issued, no page is requested after the
\* first end-of-document signal, and that signal is not reported as an error; the
\* bound on the requests is what ends the loop
C31_BoundedPageRequests ==
    \A r \in 1..Len(oc.runs) :
        LET run == oc.runs[r] IN
        /\ \A k \in 1..Len(run.requests) : run.requests[k] = k
        /\ Len(run.requests) <= RequestedLimit(run)
        /\ \A k \in 1..Len(run.requests) : run.requests[k] <= Len(run.doc.pages) + 1
        /\ (run.pc = "done" /\ Len(run.requests) > Len(run.doc.pages)) =>
              /\ run.result.error # "OCR failed"
              /\ run.result.success = (run.yielded # {})

\* the pages whose text the returned result holds
PagesInResult(run) == {run.result.text[k] : k \in 1..Len(run.result.text)}

\* C32: a rendering or recognition failure on a page that is not the end-of-document
\* signal skips that page only: the result holds the text of every page recognized
\* before it, and the next page within the limit is requested
C32_PageFailureSkipsPage ==
    \A r \in 1..Len(oc.runs) :
        LET run == oc.runs[r] IN
        (run.pc = "done" /\ run.failedPages # {}) =>
            /\ run.yielded \subseteq PagesInResult(run)
            /\ \A p \in run.failedPages :
                  p < run.maxPages => \E k \in 1..Len(run.requests) : run.requests[k] = p + 1

\* C33: on every path on which extractTextFromPDF returns, cleanupTempFiles has been
\* run, once, before the return
C33_CleanupBeforeReturn ==
    \A r \in 1..Len(oc.runs) :
        /\ oc.runs[r].pc \in {"return", "done"} => oc.runs[r].cleanups = 1
        /\ oc.runs[r].pc \notin {"return", "done"} => oc.runs[r].cleanups = 0

\* a run that had rendered a page to an image left through the outer catch and
\* returned its failure after the cleanup
C33_Witness ==
    \E r \in 1..Len(oc.runs) :
        /\ oc.runs[r].pc = "done"
        /\ oc.runs[r].caught
        /\ oc.writesImages
        /\ oc.runs[r].yielded # {}
        /\ oc.runs[r].cleanups = 1

\* C34: extractTextFromPDF returns success = true exactly when at least one processed
\* page yielded non-empty text, with that text; success = false comes with the empty
\* text and only when no page yielded any
C34_SuccessIffSomeText ==
    \A r \in 1..Len(oc.runs) :
        LET run == oc.runs[r] IN
        run.pc = "done" =>
            /\ run.result.success = (run.yielded # {})
            /\ run.result.success => PagesInResult(run) = run.yielded
            /\ ~run.result.success => run.result.text = <<>>

\* C35: two runs on different documents that overlap in time do not interfere: the
\* rendering of one never overwrites, and the cleanup of one never removes, a page
\* image of the other run while that run is in progress
C35_RunsDoNotInterfere ==
    Len(oc.runs) = 2 => (oc.overwritten = {} /\ oc.removed = {})

\* ------------------------------------------------------------------------
\* Properties of extractDataFromText
\* ------------------------------------------------------------------------
\* Claude, OpenAI, Gemini
ProviderOrder == <<"anthropic", "openai", "google">>

\* what processAIResult makes of the answer of a service
Processed(sv) == processAIResult(bx.resp[sv], bx.fields, bx.doc.fileName, MethodName(sv))

\* the service answered with a text that processAIResult parses
AnswerParses(sv) == bx.resp[sv].kind = "text" /\ ~Processed(sv).threw

\* C36: the configured providers are tried one at a time in the order Claude, OpenAI,
\* Gemini; the result of the first whose response parses is returned, with the method
\* naming it, and no later provider is invoked; when none parses all were invoked
C36_FirstParsingProvider ==
    (bx.pc = "returned" /\ isConfigured(bx.keys)) =>
        LET configured == SelectSeq(ProviderOrder, LAMBDA sv : bx.keys[sv])
            parsing == {i \in 1..Len(configured) : AnswerParses(configured[i])}
            first == CHOOSE i \in parsing : \A k \in parsing : i <= k
        IN  IF parsing # {}
            THEN /\ ~bx.returned.threw
                 /\ bx.returned.called = SubSeq(configured, 1, first)
                 /\ bx.returned.result = Processed(configured[first]).result
                 /\ bx.returned.result.method = MethodName(configured[first])
                 /\ bx.returned.ocr = <<>>
            ELSE /\ bx.returned.called = configured
                 /\ \A sv \in DOMAIN bx.keys : bx.returned.result.method # MethodName(sv)

\* all three providers are configured, Claude's call failed, the answers of OpenAI and
\* Gemini both parse: OpenAI's result was returned and Gemini was not asked
C36_Witness ==
    /\ bx.pc = "returned"
    /\ bx.keys.anthropic /\ bx.keys.openai /\ bx.keys.google
    /\ bx.resp["anthropic"].kind = "error"
    /\ AnswerParses("openai") /\ AnswerParses("google")
    /\ bx.returned.called = <<"anthropic", "openai">>
    /\ bx.returned.result.success
    /\ bx.returned.result.method = "OpenAI GPT-4"

\* ------------------------------------------------------------------------
\* Properties of extractFieldWithPatterns
\* ------------------------------------------------------------------------
\* the keyword categories in their order, with the words that select them
CategoryOrder == <<"date", "amount", "email", "phone", "invoice">>

CategoryWords ==
    [date |-> {<<"d", "a", "t", "e">>},
     amount |-> {<<"a", "m", "o", "u", "n", "t">>, <<"t", "o", "t", "a", "l">>},
     email |-> {<<"e", "m", "a", "i", "l">>},
     phone |-> {<<"p", "h", "o", "n", "e">>},
     invoice |-> {<<"i", "n", "v", "o", "i", "c", "e">>}]

\* the categories whose word the field's name or description contains
CategoriesOf(field) ==
    {k \in 1..Len(CategoryOrder) :
        \E w \in CategoryWords[CategoryOrder[k]] :
            \/ Includes(ToLowerCase(field.name), w)
            \/ field.description.t = "str" /\ Includes(ToLowerCase(field.description.s), w)}

\* C37: the first category, in the order date, amount/total, email, phone, invoice,
\* that the name or the description contains is selected, and the first match of its
\* pattern in the text is returned, 'N/A' when there is none; the function never
\* returns undefined and never throws
C37_FirstCategoryFirstMatch ==
    pf.pc = "returned" =>
        /\ ~pf.returned.threw
        /\ pf.returned.value.t # "undef"
        /\ CategoriesOf(pf.field) # {} =>
              LET k == CHOOSE i \in CategoriesOf(pf.field) :
                           \A j \in CategoriesOf(pf.field) : i <= j
                  matches == GlobalMatch(patterns[CategoryOrder[k]], pf.text, 1)
              IN  pf.returned.value =
                      IF matches = <<>> THEN Str(S_NotAvailable) ELSE Str(matches[1])

\* ------------------------------------------------------------------------
\* Properties of POST /extract-local
\* ------------------------------------------------------------------------
\* C40: every document the route hands to batchExtract reaches extractDataFromText
\* with its path as pdfPath, and a document for which every provider failed gets the
\* OCR fallback, not an error result
C40_PathReachesFallback ==
    bx.pc \in {"extract", "responded"} =>
        \A i \in 1..Len(bx.passed) :
            /\ bx.passed[i]
            /\ i \in bx.failedAll => (bx.ocr[i] # <<>> /\ i \notin bx.threwAt)

====
